---------------------------- MODULE Spec2Model ----------------------------
(***************************************************************************)
(* Model of the conference_speech single page application: the page with   *)
(* reconnection logic (src/unnamed/part_002) and the plain page            *)
(* (src/app/page.tsx).                                                     *)
(*                                                                         *)
(* Strings of the program are sequences of UTF-16 code units (numbers), so *)
(* that indexOf, substring, the regular expressions and split are computed *)
(* as the JavaScript engine computes them.                                 *)
(***************************************************************************)
EXTENDS Integers, Sequences, FiniteSets, TLC

(***************************************************************************)
(* Character classes of the regular expressions of extractKeywords.        *)
(***************************************************************************)

\* \w of a JavaScript regular expression without the u/i flags: [A-Za-z0-9_]
IsWordChar(c) ==
    \/ c \in 48..57
    \/ c \in 65..90
    \/ c = 95
    \/ c \in 97..122

\* the range 가-힣 (U+AC00..U+D7A3)
IsHangul(c) == c \in 44032..55203

\* \s of a JavaScript regular expression (WhiteSpace and LineTerminator)
IsSpace(c) ==
    \/ c \in 9..13
    \/ c \in {32, 160, 5760, 8232, 8233, 8239, 8287, 12288, 65279}
    \/ c \in 8192..8202

\* the literal "[임시]" (U+005B U+C784 U+C2DC U+005D)
ProvisionalMarker == <<91, 51076, 49884, 93>>

\* the literal "[최종]" (U+005B U+CD5C U+C885 U+005D)
FinalMarker == <<91, 52572, 51333, 93>>

\* s.startsWith(pat, i - 1): pat occurs in s at the 1-based position i
MatchesAt(s, pat, i) ==
    /\ i >= 1
    /\ i + Len(pat) - 1 <= Len(s)
    /\ \A k \in 1..Len(pat) : s[i + k - 1] = pat[k]

\* s.indexOf(pat) as a 1-based position, 0 when pat does not occur (JS: -1)
indexOf(s, pat) ==
    LET hits == {i \in 1..Len(s) : MatchesAt(s, pat, i)}
    IN  IF hits = {} THEN 0 ELSE CHOOSE i \in hits : \A j \in hits : i <= j

\* s.lastIndexOf(pat) as a 1-based position, 0 when pat does not occur
lastIndexOf(s, pat) ==
    LET hits == {i \in 1..Len(s) : MatchesAt(s, pat, i)}
    IN  IF hits = {} THEN 0 ELSE CHOOSE i \in hits : \A j \in hits : i >= j

(***************************************************************************)
(* extractKeywords (src/unnamed/part_002, lines 438-519)                   *)
(***************************************************************************)

\* the stop words, in the order of the source
stopWords == {
    <<44536>>, <<51060>>, <<51200>>, <<44163>>, <<46308>>, <<51032>>,
    <<44032>>, <<51012>>, <<47484>>, <<50640>>, <<50752>>, <<44284>>,
    <<46020>>, <<45716>>, <<51008>>, <<51060, 45796>>, <<51080, 45796>>,
    <<50630, 45796>>, <<54616, 45796>>, <<46104, 45796>>, <<51060, 44163>>,
    <<51200, 44163>>, <<44536, 44163>>, <<50668, 44592>>, <<51200, 44592>>,
    <<44144, 44592>>, <<51060, 44275>>, <<51200, 44275>>, <<44536, 44275>>,
    <<46412, 47928>>, <<46384, 46972>>, <<44536, 47000, 49436>>,
    <<44536, 47084, 45208>>, <<54616, 51648, 47564>>,
    <<44536, 47532, 44256>>, <<46608, 54620>>, <<46608, 45716>>,
    <<47564, 50557>>, <<47564, 51068>>, <<50500, 45768>>, <<50506>>,
    <<47803>>, <<50504>>, <<51076, 49884>>, <<52572, 51333>>,
    <<44208, 44284>>, <<45236, 50857>>, <<48156, 54364>>, <<51020, 49457>>,
    <<51064, 49885>>, <<50836, 50557>>, <<53581, 49828, 53944>> }

\* the position after the run of non-white-space code units that starts at i:
\* where the lazy .*? of /\[임시\].*?(?=\s|$)/ stops
RECURSIVE SkipToSpace(_, _)
SkipToSpace(s, i) ==
    IF i > Len(s) \/ IsSpace(s[i]) THEN i ELSE SkipToSpace(s, i + 1)

\* text.replace(/\[임시\].*?(?=\s|$)/g, "")
RECURSIVE replaceProvisionalFrom(_, _)
replaceProvisionalFrom(s, i) ==
    IF i > Len(s) THEN <<>>
    ELSE IF MatchesAt(s, ProvisionalMarker, i)
         THEN replaceProvisionalFrom(s, SkipToSpace(s, i + Len(ProvisionalMarker)))
         ELSE <<s[i]>> \o replaceProvisionalFrom(s, i + 1)

replaceProvisional(s) == replaceProvisionalFrom(s, 1)

\* .replace(/[^\w\s가-힣]/g, " ")
replaceNonWord(s) ==
    [i \in 1..Len(s) |->
        IF IsWordChar(s[i]) \/ IsSpace(s[i]) \/ IsHangul(s[i]) THEN s[i] ELSE 32]

\* the position after the run of white space that starts at i: the end of one
\* match of /\s+/
RECURSIVE SkipSpaces(_, _)
SkipSpaces(s, i) ==
    IF i > Len(s) \/ ~IsSpace(s[i]) THEN i ELSE SkipSpaces(s, i + 1)

\* .replace(/\s+/g, " ")
RECURSIVE replaceSpacesFrom(_, _)
replaceSpacesFrom(s, i) ==
    IF i > Len(s) THEN <<>>
    ELSE IF IsSpace(s[i])
         THEN <<32>> \o replaceSpacesFrom(s, SkipSpaces(s, i))
         ELSE <<s[i]>> \o replaceSpacesFrom(s, i + 1)

replaceSpaces(s) == replaceSpacesFrom(s, 1)

\* .trim()
trim(s) ==
    LET keep == {i \in 1..Len(s) : ~IsSpace(s[i])}
    IN  IF keep = {} THEN <<>>
        ELSE LET lo == CHOOSE i \in keep : \A j \in keep : i <= j
                 hi == CHOOSE i \in keep : \A j \in keep : i >= j
             IN  SubSeq(s, lo, hi)

\* const cleanText = text.replace(...).replace(...).replace(...).trim()
cleanText(text) == trim(replaceSpaces(replaceNonWord(replaceProvisional(text))))

\* s.split(/\s+/): the pieces between the runs of white space; "" gives [""]
RECURSIVE splitFrom(_, _, _)
splitFrom(s, i, cur) ==
    IF i > Len(s) THEN <<cur>>
    ELSE IF IsSpace(s[i])
         THEN <<cur>> \o splitFrom(s, SkipSpaces(s, i), <<>>)
         ELSE splitFrom(s, i + 1, Append(cur, s[i]))

split(s) == splitFrom(s, 1, <<>>)

(***************************************************************************)
(* wordFreq is a plain object literal: it inherits from Object.prototype.  *)
(* The model keeps its own properties as a sequence of entries in creation *)
(* order.  An entry is [key, num, n]: with num the value is the number n,  *)
(* without it the value is a string, the text of an inherited function      *)
(* followed by n characters "1" (what  function + 1  evaluates to).         *)
(***************************************************************************)

\* the names Object.prototype defines as functions, made of \w characters
InheritedFunctionKeys == {
    <<99, 111, 110, 115, 116, 114, 117, 99, 116, 111, 114>>,   \* constructor
    <<116, 111, 83, 116, 114, 105, 110, 103>>,                 \* toString
    <<118, 97, 108, 117, 101, 79, 102>>,                       \* valueOf
    <<116, 111, 76, 111, 99, 97, 108, 101, 83, 116, 114, 105, 110, 103>>,
                                                               \* toLocaleString
    <<104, 97, 115, 79, 119, 110, 80, 114, 111, 112, 101, 114, 116, 121>>,
                                                               \* hasOwnProperty
    <<105, 115, 80, 114, 111, 116, 111, 116, 121, 112, 101, 79, 102>>,
                                                               \* isPrototypeOf
    <<112, 114, 111, 112, 101, 114, 116, 121, 73, 115, 69, 110, 117, 109,
      101, 114, 97, 98, 108, 101>>,                    \* propertyIsEnumerable
    <<95, 95, 100, 101, 102, 105, 110, 101, 71, 101, 116, 116, 101, 114,
      95, 95>>,                                            \* __defineGetter__
    <<95, 95, 100, 101, 102, 105, 110, 101, 83, 101, 116, 116, 101, 114,
      95, 95>>,                                            \* __defineSetter__
    <<95, 95, 108, 111, 111, 107, 117, 112, 71, 101, 116, 116, 101, 114,
      95, 95>>,                                            \* __lookupGetter__
    <<95, 95, 108, 111, 111, 107, 117, 112, 83, 101, 116, 116, 101, 114,
      95, 95>> }                                           \* __lookupSetter__

\* __proto__ : an accessor of Object.prototype; its setter ignores a value
\* that is neither an object nor null, so no own property is ever created
ProtoKey == <<95, 95, 112, 114, 111, 116, 111, 95, 95>>

HasOwn(freq, word) == \E i \in 1..Len(freq) : freq[i].key = word

\* a filter that forgets the length of the word
eligibleAnyLength(word) == word \notin stopWords

\* if (word.length >= 2 && !stopWords.has(word))
eligible(word) == Len(word) >= 2 /\ word \notin stopWords

\* wordFreq[word] = (wordFreq[word] || 0) + 1
countWord(freq, word) ==
    IF HasOwn(freq, word)
    THEN [i \in 1..Len(freq) |->
            IF freq[i].key = word
            THEN [freq[i] EXCEPT !.n = freq[i].n + 1]
            ELSE freq[i]]
    ELSE IF word = ProtoKey THEN freq
    ELSE IF word \in InheritedFunctionKeys
         THEN Append(freq, [key |-> word, num |-> FALSE, n |-> 1])
         ELSE Append(freq, [key |-> word, num |-> TRUE, n |-> 1])

\* words.forEach((word) => { if (...) { wordFreq[word] = ... } })
RECURSIVE wordFreqFrom(_, _, _)
wordFreqFrom(ws, i, freq) ==
    IF i > Len(ws) THEN freq
    ELSE wordFreqFrom(ws, i + 1,
            IF eligible(ws[i]) THEN countWord(freq, ws[i]) ELSE freq)

wordFreq(ws) == wordFreqFrom(ws, 1, <<>>)

(***************************************************************************)
(* Object.entries(wordFreq): the own keys that are array indices (canonical *)
(* numeric strings up to 4294967294) in ascending numeric order, then the   *)
(* other keys in creation order.                                           *)
(***************************************************************************)

IsDigits(word) == \A i \in 1..Len(word) : word[i] \in 48..57

\* u < v for two digit strings of the same length
RECURSIVE DigitsLess(_, _, _)
DigitsLess(u, v, i) ==
    IF i > Len(u) THEN FALSE
    ELSE IF u[i] # v[i] THEN u[i] < v[i]
    ELSE DigitsLess(u, v, i + 1)

\* numeric u < v for two canonical numeric strings
IndexLess(u, v) ==
    \/ Len(u) < Len(v)
    \/ Len(u) = Len(v) /\ DigitsLess(u, v, 1)

\* "4294967294", the largest array index
MaxArrayIndex == <<52, 50, 57, 52, 57, 54, 55, 50, 57, 52>>

IsArrayIndex(word) ==
    /\ Len(word) >= 1
    /\ IsDigits(word)
    /\ Len(word) = 1 \/ word[1] # 48
    /\ ~IndexLess(MaxArrayIndex, word)

\* Object.entries(wordFreq)
entries(freq) ==
    LET idx == {i \in 1..Len(freq) : IsArrayIndex(freq[i].key)}
        rank(i) == Cardinality({j \in idx : IndexLess(freq[j].key, freq[i].key)}) + 1
        others == SelectSeq(freq, LAMBDA e : ~IsArrayIndex(e.key))
        sortedIdx == [r \in 1..Cardinality(idx) |->
                        freq[CHOOSE i \in idx : rank(i) = r]]
    IN  sortedIdx \o others

(***************************************************************************)
(* The score of a sentence is a JavaScript number: an IEEE 754 double, and *)
(* each operation rounds its exact result to the nearest double, a tie to  *)
(* the one whose last bit is 0.  A double d >= 0 is written [int, frac]:   *)
(* d = int + frac[1] / 2 + frac[2] / 4 + ..., the bits frac not ending in  *)
(* 0.  (A double has 53 significant bits; int stays below 2^30.)           *)
(***************************************************************************)

\* the first count bits of r / d after the binary point, for r < d, appended
\* to bits, and what is left of r
RECURSIVE FractionBits(_, _, _, _)
FractionBits(r, d, count, bits) ==
    IF count = 0 THEN [bits |-> bits, rest |-> r]
    ELSE FractionBits((2 * r) % d, d, count - 1, Append(bits, (2 * r) \div d))

\* the double nearest to int + 0.frac (+ something below the last bit of
\* frac when sticky)
RoundToDouble(int, frac, sticky) ==
    LET ones == {i \in 1..Len(frac) : frac[i] = 1}
        first == CHOOSE i \in ones : \A j \in ones : i <= j
        bitLength == CHOOSE b \in 1..30 : 2^(b - 1) <= int /\ int < 2^b
        \* the bits of frac a double keeps
        keep == IF int > 0 THEN 53 - bitLength ELSE first - 1 + 53
        Strip(f) == LET set == {i \in 1..Len(f) : f[i] = 1}
                    IN  IF set = {} THEN <<>>
                        ELSE SubSeq(f, 1, CHOOSE i \in set : \A j \in set : j <= i)
        more == sticky \/ \E i \in (keep + 2)..Len(frac) : frac[i] = 1
        odd == IF keep > 0 THEN frac[keep] = 1 ELSE int % 2 = 1
        zeros == {i \in 1..keep : frac[i] = 0}
        \* the next double above int + 0.frac[1..keep]
        above == IF zeros = {} THEN [int |-> int + 1, frac |-> <<>>]
                 ELSE [int |-> int,
                       frac |-> SubSeq(frac, 1,
                                    (CHOOSE i \in zeros : \A j \in zeros : j <= i) - 1)
                                    \o <<1>>]
    IN  IF int = 0 /\ ones = {} THEN [int |-> 0, frac |-> <<>>]
        ELSE IF Len(frac) <= keep THEN [int |-> int, frac |-> Strip(frac)]
        ELSE IF frac[keep + 1] = 1 /\ (more \/ odd) THEN above
        ELSE [int |-> int, frac |-> Strip(SubSeq(frac, 1, keep))]

\* n / d for two integers n >= 0 and d > 0
Divide(n, d) ==
    LET Rounded(quotient) == RoundToDouble(n \div d, quotient.bits, quotient.rest # 0)
    IN  Rounded(FractionBits(n % d, d, 64, <<>>))

\* the sign of b - a for two doubles (the difference of two doubles is 0
\* only when they are equal, and the sort looks at its sign only)
DoubleMinus(b, a) ==
    LET bit(x, i) == IF i <= Len(x.frac) THEN x.frac[i] ELSE 0
        longer == IF Len(a.frac) < Len(b.frac) THEN Len(b.frac) ELSE Len(a.frac)
        differ == {i \in 1..longer : bit(a, i) # bit(b, i)}
    IN  IF b.int # a.int THEN (IF b.int > a.int THEN 1 ELSE -1)
        ELSE IF differ = {} THEN 0
        ELSE IF bit(b, CHOOSE i \in differ : \A j \in differ : i <= j) = 1 THEN 1
        ELSE -1

(***************************************************************************)
(* .sort(([, a], [, b]) => b - a) as V8 computes it                         *)
(* (third_party/v8/builtins/array-sort.tq, TimSort): the comparator's NaN   *)
(* counts as 0; the array is cut into runs, a natural run is found and made *)
(* ascending and extended by binary insertion to the minimal run length (32 *)
(* to 64, the whole array when it has fewer than 64 elements), and the runs *)
(* are merged, galloping included.  With number values only this is the     *)
(* stable sort by decreasing count.  Indices are 0-based as in V8; the      *)
(* element at index i of an array arr is arr[i + 1].                        *)
(***************************************************************************)

\* the comparator: of extractKeywords, ([, a], [, b]) => b - a on the entries
\* of wordFreq, with NaN (a string operand) as 0; of createExtractiveSummary,
\* (a, b) => b.score - a.score on the scored sentences
comparefn(x, y) ==
    IF "score" \in DOMAIN x THEN DoubleMinus(y.score, x.score)
    ELSE IF x.num /\ y.num THEN y.n - x.n
    ELSE 0

\* CountAndMakeRun: the length of the first run, the places idx of arr where
\* the run would end being those whose element breaks the order
RunLength(arr, from, descending) ==
    LET ends == {idx \in from..Len(arr) :
                    LET order == comparefn(arr[idx], arr[idx - 1])
                    IN  IF descending THEN order >= 0 ELSE order < 0}
    IN  IF ends = {} THEN Len(arr)
        ELSE (CHOOSE idx \in ends : \A other \in ends : idx <= other) - 1

Reverse(arr) == [i \in 1..Len(arr) |-> arr[Len(arr) + 1 - i]]

\* the binary search of BinaryInsertionSort: the 0-based place of the pivot
RECURSIVE InsertionPoint(_, _, _, _)
InsertionPoint(arr, pivot, left, right) ==
    IF left >= right THEN left
    ELSE LET mid == left + ((right - left) \div 2)
         IN  IF comparefn(pivot, arr[mid + 1]) < 0
             THEN InsertionPoint(arr, pivot, left, mid)
             ELSE InsertionPoint(arr, pivot, mid + 1, right)

\* BinaryInsertionSort, one pivot: b.arr[1..b.start] is sorted, the element
\* after it is inserted
BinaryInsertionStep(b) ==
    IF b.start >= Len(b.arr) THEN b
    ELSE LET pivot == b.arr[b.start + 1]
             left == InsertionPoint(b.arr, pivot, 0, b.start)
         IN  [arr |-> SubSeq(b.arr, 1, left) \o <<pivot>>
                         \o SubSeq(b.arr, left + 1, b.start)
                         \o SubSeq(b.arr, b.start + 2, Len(b.arr)),
              start |-> b.start + 1]

\* 2^k pivots.  (The loops of the sort are written so that each state of a
\* loop is a value before the next iteration starts: the one element of
\* {F(next) : next \in {state}}.)
RECURSIVE BinaryInsertionIterate(_, _)
BinaryInsertionIterate(b, k) ==
    IF k = 0 THEN BinaryInsertionStep(b)
    ELSE CHOOSE after \in {BinaryInsertionIterate(half, k - 1) :
                              half \in {BinaryInsertionIterate(b, k - 1)}} : TRUE

\* the loop of BinaryInsertionSort, to its end
RECURSIVE BinaryInsertionLoop(_, _)
BinaryInsertionLoop(b, k) ==
    IF b.start >= Len(b.arr) THEN b.arr
    ELSE CHOOSE sorted \in {BinaryInsertionLoop(next, k + 1) :
                               next \in {BinaryInsertionIterate(b, k)}} : TRUE

\* BinaryInsertionSort: arr[1..start] is sorted, insert arr[start+1..]
BinaryInsertionSort(arr, start) ==
    CHOOSE sorted \in {BinaryInsertionLoop(b, 0) :
                           b \in {[arr |-> arr, start |-> start]}} : TRUE

\* CountAndMakeRun on rest = the array from the start of the run on: the
\* array with its first run made ascending, and the length of the run
CountAndMakeRun(rest) ==
    IF Len(rest) < 2 THEN [arr |-> rest, start |-> Len(rest)]
    ELSE LET descending == comparefn(rest[2], rest[1]) < 0
         IN  CHOOSE made \in
                 {[arr |-> IF descending
                           THEN Reverse(SubSeq(rest, 1, run))
                                    \o SubSeq(rest, run + 1, Len(rest))
                           ELSE rest,
                   start |-> run] : run \in {RunLength(rest, 3, descending)}} : TRUE

\* the next run of ArrayTimSortImpl: the run found by CountAndMakeRun,
\* extended by binary insertion to min(minRunLength, Len(rest)) when it is
\* shorter than minRunLength
ExtendRun(made, minRunLength) ==
    LET forced == IF minRunLength < Len(made.arr) THEN minRunLength ELSE Len(made.arr)
    IN  IF made.start < minRunLength
        THEN BinaryInsertionSort(SubSeq(made.arr, 1, forced), made.start)
        ELSE SubSeq(made.arr, 1, made.start)

MakeRun(rest, minRunLength) ==
    CHOOSE run \in {ExtendRun(made, minRunLength) :
                        made \in {CountAndMakeRun(r) : r \in {rest}}} : TRUE

\* ComputeMinRunLength
RECURSIVE ComputeMinRunLength(_, _)
ComputeMinRunLength(n, r) ==
    IF n >= 64
    THEN ComputeMinRunLength(n \div 2, IF n % 2 = 1 THEN 1 ELSE r)
    ELSE n + r

\* Copy(source, srcPos, target, dstPos, length): target after the copy
Copy(source, srcPos, target, dstPos, length) ==
    SubSeq(target, 1, dstPos) \o SubSeq(source, srcPos + 1, srcPos + length)
        \o SubSeq(target, dstPos + length + 1, Len(target))

\* the comparison of GallopLeft (element against key) and of GallopRight
\* (key against element)
GallopOrder(isLeft, arr, key, idx) ==
    IF isLeft THEN comparefn(arr[idx + 1], key) ELSE comparefn(key, arr[idx + 1])

\* the galloping loop: offsets 1, 3, 7, ... from the hint, in direction dir,
\* as long as the order is negative (whileNegative) or is not
RECURSIVE GallopLoop(_, _, _, _, _, _, _, _, _)
GallopLoop(isLeft, arr, key, from, dir, whileNegative, lastOfs, offset, maxOfs) ==
    IF offset >= maxOfs THEN <<lastOfs, offset>>
    ELSE LET order == GallopOrder(isLeft, arr, key, from + dir * offset)
         IN  IF (order < 0) = whileNegative
             THEN GallopLoop(isLeft, arr, key, from, dir, whileNegative,
                             offset, 2 * offset + 1, maxOfs)
             ELSE <<lastOfs, offset>>

\* the binary search that ends GallopLeft and GallopRight
RECURSIVE GallopSearch(_, _, _, _, _, _)
GallopSearch(isLeft, arr, key, base, lastOfs, offset) ==
    IF lastOfs >= offset THEN offset
    ELSE LET m == lastOfs + ((offset - lastOfs) \div 2)
             order == GallopOrder(isLeft, arr, key, base + m)
         IN  IF (order < 0) = isLeft
             THEN GallopSearch(isLeft, arr, key, base, m + 1, offset)
             ELSE GallopSearch(isLeft, arr, key, base, lastOfs, m)

\* GallopLeft and GallopRight: the place of key in the run of arr at base
Gallop(isLeft, arr, key, base, length, hint) ==
    LET From(order) ==
            \* GallopLeft gallops right when a[hint] < key, GallopRight
            \* when not key < a[hint]
            LET right == (order < 0) = isLeft
                maxOfs == IF right THEN length - hint ELSE hint + 1
                Between(found) ==
                    LET offset == IF found[2] > maxOfs THEN maxOfs ELSE found[2]
                        lo == IF right THEN found[1] + hint ELSE hint - offset
                        hi == IF right THEN offset + hint ELSE hint - found[1]
                    IN  GallopSearch(isLeft, arr, key, base, lo + 1, hi)
            IN  Between(GallopLoop(isLeft, arr, key, base + hint,
                                   IF right THEN 1 ELSE -1, order < 0, 0, 1, maxOfs))
    IN  From(GallopOrder(isLeft, arr, key, base + hint))

GallopLeft(arr, key, base, length, hint) == Gallop(TRUE, arr, key, base, length, hint)

GallopRight(arr, key, base, length, hint) == Gallop(FALSE, arr, key, base, length, hint)

\* kMinGallopWins, and the first value of sortState.minGallop
kMinGallopWins == 7

(***************************************************************************)
(* MergeLow and MergeHigh.  A merge is a loop; m is its state: the work    *)
(* array w, the copy t of the run set aside, the cursors dest, ct          *)
(* (cursorTemp) and c (cursorB or cursorA), the lengths la and lb left,    *)
(* the local minGallop mg, sortState.minGallop smg, the wins nA and nB,    *)
(* and the place pc: "loop" (one element at a time), "gallopFirst" and     *)
(* "gallop" (the start of the first and of a later iteration of the        *)
(* galloping loop), "gallopOther" (the second half of an iteration),       *)
(* "done".  MergeLowStep and MergeHighStep are the step at pc.             *)
(***************************************************************************)

\* label Succeed of MergeLow
MergeLowSucceed(m) ==
    [m EXCEPT !.w = IF m.la > 0 THEN Copy(m.t, m.ct, m.w, m.dest, m.la) ELSE m.w,
              !.pc = "done"]

\* label CopyB of MergeLow
MergeLowCopyB(m) ==
    [m EXCEPT !.w = [Copy(m.w, m.c, m.w, m.dest, m.lb)
                        EXCEPT ![m.dest + m.lb + 1] = m.t[m.ct + 1]],
              !.pc = "done"]

\* workArray[dest++] = workArray[cursorB++]; --lengthB
MergeLowTakeB(m) ==
    [m EXCEPT !.w = [m.w EXCEPT ![m.dest + 1] = m.w[m.c + 1]],
              !.dest = @ + 1, !.c = @ + 1, !.lb = @ - 1]

\* workArray[dest++] = tempArray[cursorTemp++]; --lengthA
MergeLowTakeA(m) ==
    [m EXCEPT !.w = [m.w EXCEPT ![m.dest + 1] = m.t[m.ct + 1]],
              !.dest = @ + 1, !.ct = @ + 1, !.la = @ - 1]

\* MergeLow: one element, until one run has won minGallop times in a row
MergeLowLoop(m) ==
    IF comparefn(m.w[m.c + 1], m.t[m.ct + 1]) < 0
    THEN LET m1 == [MergeLowTakeB(m) EXCEPT !.nB = @ + 1, !.nA = 0]
         IN  IF m1.lb = 0 THEN MergeLowSucceed(m1)
             ELSE IF m1.nB >= m1.mg
                  THEN [m1 EXCEPT !.mg = @ + 1, !.pc = "gallopFirst"]
                  ELSE m1
    ELSE LET m1 == [MergeLowTakeA(m) EXCEPT !.nA = @ + 1, !.nB = 0]
         IN  IF m1.la = 1 THEN MergeLowCopyB(m1)
             ELSE IF m1.nA >= m1.mg
                  THEN [m1 EXCEPT !.mg = @ + 1, !.pc = "gallopFirst"]
                  ELSE m1

\* MergeLow: the test of the galloping loop and the first half of an
\* iteration: the elements of run A that precede the next of run B, and
\* that element of run B
MergeLowGallop(m) ==
    IF ~(m.nA >= kMinGallopWins \/ m.nB >= kMinGallopWins \/ m.pc = "gallopFirst")
    THEN [m EXCEPT !.mg = @ + 1, !.smg = m.mg + 1, !.nA = 0, !.nB = 0,
                   !.pc = "loop"]
    ELSE LET minGallop == IF m.mg - 1 > 1 THEN m.mg - 1 ELSE 1
             Won(nofWinsA) ==
                 LET m1 == [m EXCEPT !.mg = minGallop, !.smg = minGallop,
                                     !.nA = nofWinsA,
                                     !.w = Copy(m.t, m.ct, m.w, m.dest, nofWinsA),
                                     !.dest = @ + nofWinsA, !.ct = @ + nofWinsA,
                                     !.la = @ - nofWinsA]
                 IN  IF nofWinsA > 0 /\ m.la - nofWinsA = 1 THEN MergeLowCopyB(m1)
                     ELSE IF nofWinsA > 0 /\ m.la - nofWinsA = 0
                          THEN MergeLowSucceed(m1)
                     ELSE IF m.lb - 1 = 0 THEN MergeLowSucceed(MergeLowTakeB(m1))
                     ELSE [MergeLowTakeB(m1) EXCEPT !.pc = "gallopOther"]
         IN  Won(GallopRight(m.t, m.w[m.c + 1], m.ct, m.la, 0))

\* MergeLow: the second half of an iteration of the galloping loop: the
\* elements of run B that precede the next of run A, and that element of
\* run A
MergeLowGallopOther(m) ==
    LET Won(nofWinsB) ==
            LET m3 == [m EXCEPT !.nB = nofWinsB,
                                !.w = Copy(m.w, m.c, m.w, m.dest, nofWinsB),
                                !.dest = @ + nofWinsB,
                                !.c = @ + nofWinsB,
                                !.lb = @ - nofWinsB]
            IN  IF m.lb - nofWinsB = 0 THEN MergeLowSucceed(m3)
                ELSE IF m.la - 1 = 1 THEN MergeLowCopyB(MergeLowTakeA(m3))
                ELSE [MergeLowTakeA(m3) EXCEPT !.pc = "gallop"]
    IN  Won(GallopLeft(m.w, m.t[m.ct + 1], m.c, m.lb, 0))

MergeLowStep(m) ==
    IF m.pc = "done" THEN m
    ELSE IF m.pc = "loop" THEN MergeLowLoop(m)
    ELSE IF m.pc = "gallopOther" THEN MergeLowGallopOther(m)
    ELSE MergeLowGallop(m)

\* label Succeed of MergeHigh
MergeHighSucceed(m) ==
    [m EXCEPT !.w = IF m.lb > 0
                    THEN Copy(m.t, 0, m.w, m.dest - (m.lb - 1), m.lb)
                    ELSE m.w,
              !.pc = "done"]

\* label CopyA of MergeHigh
MergeHighCopyA(m) ==
    LET dest == m.dest - m.la
        cursorA == m.c - m.la
    IN  [m EXCEPT !.w = [Copy(m.w, cursorA + 1, m.w, dest + 1, m.la)
                            EXCEPT ![dest + 1] = m.t[m.ct + 1]],
                  !.pc = "done"]

\* workArray[dest--] = workArray[cursorA--]; --lengthA
MergeHighTakeA(m) ==
    [m EXCEPT !.w = [m.w EXCEPT ![m.dest + 1] = m.w[m.c + 1]],
              !.dest = @ - 1, !.c = @ - 1, !.la = @ - 1]

\* workArray[dest--] = tempArray[cursorTemp--]; --lengthB
MergeHighTakeB(m) ==
    [m EXCEPT !.w = [m.w EXCEPT ![m.dest + 1] = m.t[m.ct + 1]],
              !.dest = @ - 1, !.ct = @ - 1, !.lb = @ - 1]

\* MergeHigh: one element, until one run has won minGallop times in a row
MergeHighLoop(m) ==
    IF comparefn(m.t[m.ct + 1], m.w[m.c + 1]) < 0
    THEN LET m1 == [MergeHighTakeA(m) EXCEPT !.nA = @ + 1, !.nB = 0]
         IN  IF m1.la = 0 THEN MergeHighSucceed(m1)
             ELSE IF m1.nA >= m1.mg
                  THEN [m1 EXCEPT !.mg = @ + 1, !.pc = "gallopFirst"]
                  ELSE m1
    ELSE LET m1 == [MergeHighTakeB(m) EXCEPT !.nB = @ + 1, !.nA = 0]
         IN  IF m1.lb = 1 THEN MergeHighCopyA(m1)
             ELSE IF m1.nB >= m1.mg
                  THEN [m1 EXCEPT !.mg = @ + 1, !.pc = "gallopFirst"]
                  ELSE m1

\* MergeHigh: the test of the galloping loop and the first half of an
\* iteration: the elements of run A that follow the next of run B, and
\* that element of run B
MergeHighGallop(m) ==
    IF ~(m.nA >= kMinGallopWins \/ m.nB >= kMinGallopWins \/ m.pc = "gallopFirst")
    THEN [m EXCEPT !.mg = @ + 1, !.smg = m.mg + 1, !.nA = 0, !.nB = 0,
                   !.pc = "loop"]
    ELSE LET minGallop == IF m.mg - 1 > 1 THEN m.mg - 1 ELSE 1
             Won(nofWinsA) ==
                 LET m1 == [m EXCEPT !.mg = minGallop, !.smg = minGallop,
                                     !.nA = nofWinsA,
                                     !.w = Copy(m.w, m.c - nofWinsA + 1, m.w,
                                                m.dest - nofWinsA + 1, nofWinsA),
                                     !.dest = @ - nofWinsA, !.c = @ - nofWinsA,
                                     !.la = @ - nofWinsA]
                 IN  IF nofWinsA > 0 /\ m.la - nofWinsA = 0 THEN MergeHighSucceed(m1)
                     ELSE IF m.lb - 1 = 1 THEN MergeHighCopyA(MergeHighTakeB(m1))
                     ELSE [MergeHighTakeB(m1) EXCEPT !.pc = "gallopOther"]
         IN  Won(m.la - GallopRight(m.w, m.t[m.ct + 1], m.base, m.la, m.la - 1))

\* MergeHigh: the second half of an iteration of the galloping loop: the
\* elements of run B that follow the next of run A, and that element of
\* run A
MergeHighGallopOther(m) ==
    LET Won(nofWinsB) ==
            LET m3 == [m EXCEPT !.nB = nofWinsB,
                                !.w = Copy(m.t, m.ct - nofWinsB + 1, m.w,
                                           m.dest - nofWinsB + 1, nofWinsB),
                                !.dest = @ - nofWinsB,
                                !.ct = @ - nofWinsB,
                                !.lb = @ - nofWinsB]
            IN  IF nofWinsB > 0 /\ m.lb - nofWinsB = 1 THEN MergeHighCopyA(m3)
                ELSE IF nofWinsB > 0 /\ m.lb - nofWinsB = 0
                     THEN MergeHighSucceed(m3)
                ELSE IF m.la - 1 = 0 THEN MergeHighSucceed(MergeHighTakeA(m3))
                ELSE [MergeHighTakeA(m3) EXCEPT !.pc = "gallop"]
    IN  Won(m.lb - GallopLeft(m.t, m.w[m.c + 1], 0, m.lb, m.lb - 1))

MergeHighStep(m) ==
    IF m.pc = "done" THEN m
    ELSE IF m.pc = "loop" THEN MergeHighLoop(m)
    ELSE IF m.pc = "gallopOther" THEN MergeHighGallopOther(m)
    ELSE MergeHighGallop(m)

\* 2^k iterations of the loop of a merge
RECURSIVE MergeIterate(_, _, _)
MergeIterate(low, m, k) ==
    IF m.pc = "done" THEN m
    ELSE IF k = 0 THEN (IF low THEN MergeLowStep(m) ELSE MergeHighStep(m))
    ELSE CHOOSE after \in {MergeIterate(low, half, k - 1) :
                              half \in {MergeIterate(low, m, k - 1)}} : TRUE

\* the loop of a merge, to its end
RECURSIVE MergeLoop(_, _, _)
MergeLoop(low, m, k) ==
    IF m.pc = "done" THEN m
    ELSE CHOOSE merged \in {MergeLoop(low, next, k + 1) :
                               next \in {MergeIterate(low, m, k)}} : TRUE

\* the merge that starts in state first, to its end
MergeFrom(low, first) ==
    CHOOSE merged \in
        {IF low /\ m.lb = 0 THEN MergeLowSucceed(m)
         ELSE IF low /\ m.la = 1 THEN MergeLowCopyB(m)
         ELSE IF ~low /\ m.la = 0 THEN MergeHighSucceed(m)
         ELSE IF ~low /\ m.lb = 1 THEN MergeHighCopyA(m)
         ELSE MergeLoop(low, m, 0) : m \in {first}} : TRUE

\* MergeLow(baseA, lengthA, baseB, lengthB): run A is copied aside and the
\* runs are merged from the left
MergeLow(w, minGallop, baseA, lengthA, baseB, lengthB) ==
    MergeFrom(TRUE,
        MergeLowTakeB([w |-> w, t |-> SubSeq(w, baseA + 1, baseA + lengthA),
                       base |-> baseA,
                       dest |-> baseA, ct |-> 0, c |-> baseB,
                       la |-> lengthA, lb |-> lengthB,
                       mg |-> minGallop, smg |-> minGallop,
                       nA |-> 0, nB |-> 0, pc |-> "loop"]))

\* MergeHigh(baseA, lengthA, baseB, lengthB): run B is copied aside and the
\* runs are merged from the right
MergeHigh(w, minGallop, baseA, lengthA, baseB, lengthB) ==
    MergeFrom(FALSE,
        MergeHighTakeA([w |-> w, t |-> SubSeq(w, baseB + 1, baseB + lengthB),
                        base |-> baseA,
                        dest |-> baseB + lengthB - 1, ct |-> lengthB - 1,
                        c |-> baseA + lengthA - 1,
                        la |-> lengthA, lb |-> lengthB,
                        mg |-> minGallop, smg |-> minGallop,
                        nA |-> 0, nB |-> 0, pc |-> "loop"]))

\* the merge of MergeAt: of run a, from the place of the first element of
\* run b on, with run b, up to the place of the last element of run a
MergeRuns(st, a, b) ==
    CHOOSE merged \in
        {LET baseA == a.base + k
             lengthA == a.length - k
         IN  IF lengthA = 0 THEN [w |-> st.w, smg |-> st.minGallop]
             ELSE CHOOSE done \in
                      {IF lengthB = 0 THEN [w |-> st.w, smg |-> st.minGallop]
                       ELSE IF lengthA <= lengthB
                            THEN MergeLow(st.w, st.minGallop, baseA, lengthA,
                                          b.base, lengthB)
                            ELSE MergeHigh(st.w, st.minGallop, baseA, lengthA,
                                           b.base, lengthB) :
                       lengthB \in {GallopLeft(st.w, st.w[baseA + lengthA], b.base,
                                               b.length, b.length - 1)}} : TRUE :
         k \in {GallopRight(st.w, st.w[b.base + 1], a.base, a.length, 0)}} : TRUE

\* MergeAt(i): the runs i and i + 1 of the stack of pending runs (0-based)
\* become one; st holds the work array w, the stack runs and minGallop
MergeAt(st, i) ==
    LET a == st.runs[i + 1]
        b == st.runs[i + 2]
        size == Len(st.runs)
        runs == SubSeq(st.runs, 1, i)
                    \o <<[base |-> a.base, length |-> a.length + b.length]>>
                    \o SubSeq(st.runs, i + 3, size)
    IN  CHOOSE after \in {[w |-> merged.w, runs |-> runs, minGallop |-> merged.smg] :
                             merged \in {MergeRuns(st, a, b)}} : TRUE

\* RunInvariantEstablished(pendingRuns, n)
RunInvariantEstablished(runs, n) ==
    n < 2 \/ runs[n - 1].length > runs[n].length + runs[n + 1].length

\* MergeCollapse
RECURSIVE MergeCollapse(_)
MergeCollapse(st) ==
    IF Len(st.runs) <= 1 THEN st
    ELSE LET n == Len(st.runs) - 2
         IN  IF ~RunInvariantEstablished(st.runs, n + 1)
                   \/ ~RunInvariantEstablished(st.runs, n)
             THEN CHOOSE collapsed \in {MergeCollapse(next) : next \in
                      {MergeAt(st, IF st.runs[n].length < st.runs[n + 2].length
                                   THEN n - 1 ELSE n)}} : TRUE
             ELSE IF st.runs[n + 1].length <= st.runs[n + 2].length
                  THEN CHOOSE collapsed \in {MergeCollapse(next) :
                                                next \in {MergeAt(st, n)}} : TRUE
                  ELSE st

\* MergeForceCollapse
RECURSIVE MergeForceCollapse(_)
MergeForceCollapse(st) ==
    IF Len(st.runs) <= 1 THEN st
    ELSE LET n == Len(st.runs) - 2
         IN  CHOOSE collapsed \in {MergeForceCollapse(next) : next \in
                 {MergeAt(st, IF n > 0 /\ st.runs[n].length < st.runs[n + 2].length
                              THEN n - 1 ELSE n)}} : TRUE

\* PushRun, after the run has been written to its place in the work array
PushRun(st, low, run) ==
    [st EXCEPT !.w = Copy(run, 0, st.w, low, Len(run)),
               !.runs = Append(st.runs, [base |-> low, length |-> Len(run)])]

\* the loop of ArrayTimSortImpl: the next run starts at low
RECURSIVE TimSortRuns(_, _, _)
TimSortRuns(st, low, minRunLength) ==
    IF low >= Len(st.w) THEN st
    ELSE CHOOSE sorted \in
             {TimSortRuns(next, next.runs[Len(next.runs)].base
                                    + next.runs[Len(next.runs)].length,
                          minRunLength) :
                  next \in {MergeCollapse(pushed) :
                      pushed \in {PushRun(st, low, run) :
                          run \in {MakeRun(SubSeq(st.w, low + 1, Len(st.w)),
                                           minRunLength)}}}} : TRUE

\* ArrayTimSortImpl
ArrayTimSortImpl(w) ==
    IF Len(w) < 2 THEN w
    ELSE CHOOSE sorted \in
             {MergeForceCollapse(st).w :
                  st \in {TimSortRuns([w |-> w, runs |-> <<>>,
                                       minGallop |-> kMinGallopWins],
                                      0, ComputeMinRunLength(Len(w), 0))}} : TRUE

\* Array.prototype.sort with the comparator of extractKeywords
sort(arr) == CHOOSE sorted \in {ArrayTimSortImpl(w) : w \in {arr}} : TRUE

\* .slice(0, 8)
slice8(arr) == SubSeq(arr, 1, IF Len(arr) < 8 THEN Len(arr) ELSE 8)

\* const sortedWords = Object.entries(wordFreq).sort(...).slice(0, 8).map(...)
sortedWords(freq) ==
    LET map(top) == [i \in 1..Len(top) |-> top[i].key]
    IN  map(slice8(sort(entries(freq))))

\* extractKeywords(text)
extractKeywords(text) == sortedWords(wordFreq(split(cleanText(text))))

(***************************************************************************)
(* summarizeText: the text it works on (lines 537-550) and the extractive  *)
(* summary it falls back to (createExtractiveSummary, lines 590-613).      *)
(***************************************************************************)

\* let processedText = transcription.replace(...).replace(...).trim()
processedText(text) == trim(replaceSpaces(replaceProvisional(text)))

\* processedText.length > maxLength ? processedText.substring(0, maxLength) + "..."
textToSummarize(text) ==
    IF Len(text) > 1000 THEN SubSeq(text, 1, 1000) \o <<46, 46, 46>> ELSE text

\* [.!?]
IsSentenceEnd(c) == c \in {46, 33, 63}

\* the position after the run of [.!?] that starts at i
RECURSIVE SkipSentenceEnds(_, _)
SkipSentenceEnds(s, i) ==
    IF i > Len(s) \/ ~IsSentenceEnd(s[i]) THEN i ELSE SkipSentenceEnds(s, i + 1)

\* text.split(/[.!?]+/)
RECURSIVE splitSentencesFrom(_, _, _)
splitSentencesFrom(s, i, cur) ==
    IF i > Len(s) THEN <<cur>>
    ELSE IF IsSentenceEnd(s[i])
         THEN <<cur>> \o splitSentencesFrom(s, SkipSentenceEnds(s, i), <<>>)
         ELSE splitSentencesFrom(s, i + 1, Append(cur, s[i]))

\* const sentences = text.split(/[.!?]+/).filter((s) => s.trim().length > 10)
sentencesOf(text) ==
    SelectSeq(splitSentencesFrom(text, 1, <<>>), LAMBDA x : Len(trim(x)) > 10)

\* sentence.includes(keyword)
includes(sentence, keyword) ==
    keyword = <<>> \/ indexOf(sentence, keyword) # 0

\* score: keywordCount + sentence.length / 100
score(sentence, kws) ==
    LET keywordCount == Cardinality({q \in 1..Len(kws) : includes(sentence, kws[q])})
        Plus(quotient) ==
            RoundToDouble(keywordCount + quotient.int, quotient.frac, FALSE)
    IN  Plus(Divide(Len(sentence), 100))

\* topSentences.join(". ")
RECURSIVE join(_)
join(xs) ==
    IF xs = <<>> THEN <<>>
    ELSE IF Len(xs) = 1 THEN xs[1]
    ELSE xs[1] \o <<46, 32>> \o join(Tail(xs))

\* createExtractiveSummary(text)
createExtractiveSummary(text) ==
    LET sentences == sentencesOf(text)
        scoredSentences(kws) ==
            [i \in 1..Len(sentences) |->
                [sentence |-> trim(sentences[i]),
                 score |-> score(sentences[i], kws)]]
        \* Math.max(2, Math.ceil(sentences.length * 0.4))
        ceil == (2 * Len(sentences) + 4) \div 5
        count == IF ceil < 2 THEN 2 ELSE ceil
        topSentences(sorted) ==
            SubSeq(sorted, 1, IF Len(sorted) < count THEN Len(sorted) ELSE count)
        \* .map((item) => item.sentence)
        sentenceOf(top) == [i \in 1..Len(top) |-> top[i].sentence]
    IN  IF Len(sentences) <= 3 THEN text
        ELSE join(sentenceOf(topSentences(sort(scoredSentences(extractKeywords(text))))))
                 \o <<46>>

(***************************************************************************)
(* recognition.onresult: the new transcript (src/unnamed/part_002 lines    *)
(* 104-133, src/app/page.tsx lines 94-123; the two are the same code).     *)
(* event.results is a sequence of [isFinal, transcript].                   *)
(***************************************************************************)

\* prev.substring(0, to): the first `to` code units
substring0(s, to) == SubSeq(s, 1, to)

\* for (let i = 0; i < event.results.length; i++)
\*   if (result.isFinal) finalTranscript += result[0].transcript + " "
RECURSIVE finalTranscript(_)
finalTranscript(rs) ==
    IF rs = <<>> THEN <<>>
    ELSE (IF Head(rs).isFinal THEN Head(rs).transcript \o <<32>> ELSE <<>>)
         \o finalTranscript(Tail(rs))

\*   else interimTranscript += result[0].transcript
RECURSIVE interimTranscript(_)
interimTranscript(rs) ==
    IF rs = <<>> THEN <<>>
    ELSE (IF Head(rs).isFinal THEN <<>> ELSE Head(rs).transcript)
         \o interimTranscript(Tail(rs))

\* the updater of the branch  if (interimTranscript)
interimUpdate(prev, rs) ==
    LET lastFinalIndex == lastIndexOf(prev, FinalMarker)
        basePrev == IF lastFinalIndex >= 1
                    THEN substring0(prev, lastFinalIndex - 1)
                    ELSE prev
    IN  basePrev \o finalTranscript(rs) \o ProvisionalMarker \o <<32>>
                 \o interimTranscript(rs)

\* the updater of the branch  else if (finalTranscript)
finalUpdate(prev, rs) ==
    LET tempIndex == indexOf(prev, ProvisionalMarker)
        basePrev == IF tempIndex >= 1
                    THEN substring0(prev, tempIndex - 1)
                    ELSE prev
    IN  basePrev \o finalTranscript(rs)

\* the transcript after recognition.onresult has handled event.results = rs
onresultTranscription(prev, rs) ==
    IF interimTranscript(rs) # <<>> THEN interimUpdate(prev, rs)
    ELSE IF finalTranscript(rs) # <<>> THEN finalUpdate(prev, rs)
    ELSE prev

(***************************************************************************)
(* The component Home of src/unnamed/part_002 as a state machine.          *)
(*                                                                         *)
(* A step is one task of the browser's event loop: a handler runs to its   *)
(* end (or to its await), React commits the batched state updates and runs *)
(* the effects whose dependencies changed.                                 *)
(*                                                                         *)
(* A handler reads the state through the closure of the render that made   *)
(* it.  The handlers of the recognizer are made once, by the effect with   *)
(* the empty dependency list (lines 78-228): they read the state of the    *)
(* first render for ever.                                                  *)
(***************************************************************************)

VARIABLES
    transcription,        \* useState(""): code units
    isRecording,          \* useState(false)
    isListening,          \* useState(false)
    error,                \* useState(""): a sequence of message parts
    reconnectAttempts,    \* useState(0)
    lastActivity,         \* useState(Date.now()), ms
    isLoading,            \* useState(false)
    micLevel,             \* useState(0)
    environmentStatus,    \* useState("quiet")
    recognitionRef,       \* recognitionRef.current is not null
    audioRefs,            \* audioContextRef.current and microphoneRef.current are not null
    analyserRef,          \* analyserRef.current is not null
    animationRef,         \* animationRef.current holds a pending animation frame
    reconnectTimeoutRef,  \* reconnectTimeoutRef.current is not null
    activityCheckRef,     \* the interval of the activity effect: "none", "armed", "due"
    timers,               \* the pending setTimeout callbacks, oldest first
    pending,              \* startRecording calls awaiting getUserMedia
    summarizer,           \* initSummarizer: "loading", "fallback", "ready", "failed"
    rec,                  \* the recognizer: "idle", "starting", "listening", "stopping"
    results,              \* the recognizer's results list of the current session
    now,                  \* Date.now(), ms since the mount
    startCall,            \* what the last step did with recognition.start():
                          \* "none" (not called), "started", "threw"
    kwInput,              \* the argument of extractKeywords
    kwCount,              \* the number of pieces appended to kwInput
    kwOutput,             \* its result: <<"none">> before the call, <<"ok", list>> after
    summary,              \* useState(""): code units
    keywords,             \* useState([]): a sequence of words
    summarizing,          \* the summarizeText calls awaiting the model, each with
                          \* the text it summarizes
    page                  \* the page that is mounted: "part_002" (src/unnamed/part_002)
                          \* or "app" (src/app/page.tsx)

vars == <<transcription, isRecording, isListening, error, reconnectAttempts,
          lastActivity, isLoading, micLevel, environmentStatus, recognitionRef,
          audioRefs, analyserRef, animationRef, reconnectTimeoutRef,
          activityCheckRef, timers, pending, summarizer, rec, results, now,
          startCall, kwInput, kwCount, kwOutput, summary, keywords,
          summarizing, page>>

\* the variables of the keyword extractor's driver
kwVars == <<kwInput, kwCount, kwOutput>>

\* the variables of the page
pageVars == <<transcription, isRecording, isListening, error, reconnectAttempts,
              lastActivity, isLoading, micLevel, environmentStatus,
              recognitionRef, audioRefs, analyserRef, animationRef,
              reconnectTimeoutRef, activityCheckRef, timers, pending,
              summarizer, rec, results, now, startCall, summary, keywords,
              summarizing, page>>

\* the microphone monitor
micVars == <<micLevel, environmentStatus, audioRefs, analyserRef, animationRef>>

\* the summarizer
sumVars == <<isLoading, summarizer, summary, keywords, summarizing>>

\* what the mount fixes: the recognizer's existence and the page
envVars == <<recognitionRef, page>>

(***************************************************************************)
(* Bounds of the model.                                                    *)
(***************************************************************************)

\* the clock stops after MaxTicks periods of the activity interval
MaxTicks == 7

\* reconnectAttempts is not counted beyond MaxAttempts
MaxAttempts == 6

\* at most MaxTimers setTimeout callbacks are pending
MaxTimers == 1

\* at most MaxPending startRecording calls await getUserMedia
MaxPending == 1

\* SpecTranscript: the recognizer reports at most MaxResults results in one
\* session, and the transcript is not followed beyond MaxTranscript code units
MaxResults == 2

MaxTranscript == 18

\* Spec: the same two bounds, kept small there
SessionMaxResults == 1

SessionMaxTranscript == 2

\* SpecKeywords: at most MaxPieces pieces are appended to the text
MaxPieces == 3

\* the period of the activity interval, ms: setInterval(..., 10000); the
\* clock of the model advances by one period
TickMs == 10000

(***************************************************************************)
(* The messages of setError.  A message is a sequence of parts; "" is <<>>. *)
(***************************************************************************)

\* "이 브라우저는 음성 인식을 지원하지 않습니다. Chrome 브라우저를 사용해주세요."
MsgUnsupported == <<"this browser does not support speech recognition">>

\* `연결 문제 발생, 재시도 중... (${n}/5)`
MsgRetrying(n) == <<"connection problem, retrying... (", n, "/5)">>

\* `음성 인식 오류: ${event.error} - ${event.message || "알 수 없는 오류"}`
MsgRecognitionError(code, message) ==
    <<"speech recognition error: ", code, " - ",
      IF message # "" THEN message ELSE "unknown error">>

\* "음성 인식이 중단되었습니다. 다시 시작해주세요."
MsgStopped == <<"speech recognition has stopped, please start again">>

\* "음성 인식이 비활성 상태입니다. 말씀해 주세요."
MsgInactive == <<"speech recognition is inactive, please speak">>

\* "요약 모델을 로딩하는데 실패했습니다."
MsgModelLoadFailed == <<"failed to load the summarization model">>

\* "마이크에 접근할 수 없습니다. 브라우저에서 마이크 권한을 허용해주세요."
MsgMicrophone == <<"cannot access the microphone">>

\* "음성 인식을 시작할 수 없습니다. 잠시 후 다시 시도해주세요."
MsgStartFailed == <<"cannot start speech recognition, try again later">>

\* "요약할 텍스트가 없습니다."
MsgNothingToSummarize == <<"there is no text to summarize">>

\* "요약 모델이 아직 로딩되지 않았습니다."
MsgModelNotLoaded == <<"the summarization model is not loaded yet">>

\* "텍스트 요약에 실패했습니다."
MsgSummarizeFailed == <<"failed to summarize the text">>

\* src/app/page.tsx: `음성 인식 오류: ${event.error}`
app_MsgRecognitionError(code) == <<"speech recognition error: ", code>>

(***************************************************************************)
(* The state the recognizer's handlers read: that of the first render.     *)
(***************************************************************************)

\* isRecording of the first render: useState(false)
mount_isRecording == FALSE

\* reconnectAttempts of the first render: useState(0)
mount_reconnectAttempts == 0

\* lastActivity of the first render: useState(Date.now()), the time of the mount
mount_lastActivity == 0

(***************************************************************************)
(* The environment: what the browser may report.                           *)
(***************************************************************************)

\* event.error of a SpeechRecognitionErrorEvent
ErrorCodes == {"network", "audio-capture", "aborted",
               "not-allowed", "service-not-allowed", "no-speech"}

\* event.message
ErrorMessages == {"", "detail"}

\* the transcripts the recognizer reports: "a", "b"
Segments == {<<97>>, <<98>>}

\* the rounded average of the analyser's frequency data
Levels == {5, 12, 30}

\* the results list after the recognizer has recognized more: the final
\* results stay, an interim result at the end is replaced by its successor
\* (interim again, or final)
NextResults(rs) ==
    LET finals == SelectSeq(rs, LAMBDA r : r.isFinal)
    IN  {Append(finals, [isFinal |-> f, transcript |-> w]) :
            f \in BOOLEAN, w \in Segments}

RECURSIVE Pow2(_)
Pow2(k) == IF k = 0 THEN 1 ELSE 2 * Pow2(k - 1)

Min(a, b) == IF a < b THEN a ELSE b

(***************************************************************************)
(* Helpers of the handlers.                                                *)
(***************************************************************************)

\* cleanupReconnection, on the timers: clearTimeout(reconnectTimeoutRef.current)
\* removes the one timer the ref holds, if it is still pending
clearReconnectTimeout(ts) == SelectSeq(ts, LAMBDA t : ~t.held)

\* reconnectTimeoutRef.current = setTimeout(callback, delay): the ref now
\* holds the new timer; a timer it held before stays pending
setReconnectTimeout(ts, kind, delay) ==
    Append([i \in 1..Len(ts) |-> [ts[i] EXCEPT !.held = FALSE]],
           [kind |-> kind, delay |-> delay, held |-> TRUE])

\* the activity effect (lines 231-273) after a commit: when a dependency
\* (isRecording, lastActivity, reconnectAttempts) changed, its cleanup clears
\* the interval and it sets a new one while isRecording
activityEffect(ref, changed, recording) ==
    IF changed THEN (IF recording THEN "armed" ELSE "none") ELSE ref

\* the delay of the retry in onerror: Math.min(1000 * Math.pow(2, k), 10000)
retryDelay(k) == Min(1000 * Pow2(k), 10000)

\* the delay of the restart in onend: Math.min(500 + k * 200, 2000)
restartDelay(k) == Min(500 + k * 200, 2000)

\* the environment status monitorVolume derives from the level
statusOf(level) ==
    IF level < 10 THEN "quiet" ELSE IF level < 25 THEN "noisy" ELSE "very_noisy"

\* setReconnectAttempts((prev) => prev + 1)
increment(prev) == prev + 1

\* a test that leaves out service-not-allowed
permissionDeniedOne(code) == code = "not-allowed"

\* event.error === "not-allowed" || event.error === "service-not-allowed"
permissionDenied(code) == code \in {"not-allowed", "service-not-allowed"}

\* a catch that only logs the failure of getUserMedia
micErrorSilent(granted, err) == err

\* the error state after setupMicrophoneMonitoring: its catch (lines 361-366)
\* sets the message when getUserMedia was refused
micError(granted, err) == IF granted THEN err ELSE MsgMicrophone

(***************************************************************************)
(* The initial state: the first render is committed and the three effects  *)
(* have run.  Either window.SpeechRecognition exists or it does not.       *)
(***************************************************************************)

Init ==
    /\ transcription = <<>>
    /\ isRecording = FALSE
    /\ isListening = FALSE
    /\ recognitionRef \in BOOLEAN
    /\ error = IF recognitionRef THEN <<>> ELSE MsgUnsupported
    /\ reconnectAttempts = 0
    /\ lastActivity = 0
    /\ isLoading = TRUE
    /\ micLevel = 0
    /\ environmentStatus = "quiet"
    /\ audioRefs = FALSE
    /\ analyserRef = FALSE
    /\ animationRef = FALSE
    /\ reconnectTimeoutRef = FALSE
    /\ activityCheckRef = "none"
    /\ timers = <<>>
    /\ pending = 0
    /\ summarizer = "loading"
    /\ rec = "idle"
    /\ results = <<>>
    /\ now = 0
    /\ startCall = "none"
    /\ kwInput = <<>>
    /\ kwCount = 0
    /\ kwOutput = <<"none">>
    /\ summary = <<>>
    /\ keywords = <<>>
    /\ summarizing = <<>>
    /\ page = "part_002"

\* a startRecording that does not test recognitionRef.current
startRecordingUnguarded ==
    /\ ~isRecording
    /\ pending < MaxPending
    /\ error' = <<>>
    /\ isRecording' = TRUE
    /\ reconnectAttempts' = 0
    /\ lastActivity' = now
    /\ timers' = clearReconnectTimeout(timers)
    /\ reconnectTimeoutRef' = FALSE
    /\ activityCheckRef' = activityEffect("none", TRUE, TRUE)
    /\ pending' = pending + 1
    /\ startCall' = "none"
    /\ UNCHANGED <<transcription, isListening, micVars, sumVars, envVars, rec,
                   results, now, kwVars>>

(***************************************************************************)
(* startRecording (lines 399-422), up to  await setupMicrophoneMonitoring() *)
(* which suspends in  await getUserMedia(...).  The button is disabled     *)
(* while isRecording.                                                      *)
(***************************************************************************)
startRecording ==
    /\ ~isRecording
    /\ pending < MaxPending
    /\ IF recognitionRef
       THEN /\ error' = <<>>
            /\ isRecording' = TRUE
            /\ reconnectAttempts' = 0
            /\ lastActivity' = now
            /\ timers' = clearReconnectTimeout(timers)
            /\ reconnectTimeoutRef' = FALSE
            /\ activityCheckRef' = activityEffect("none", TRUE, TRUE)
            /\ pending' = pending + 1
            /\ startCall' = "none"
            /\ UNCHANGED <<transcription, isListening, micVars, sumVars,
                           envVars, rec, results, now, kwVars>>
       ELSE /\ startCall' = "none"
            /\ UNCHANGED <<transcription, isRecording, isListening, error,
                           reconnectAttempts, lastActivity, micVars, sumVars,
                           envVars, reconnectTimeoutRef, activityCheckRef,
                           timers, pending, rec, results, now, kwVars>>

(***************************************************************************)
(* The rest of startRecording once getUserMedia has settled: the rest of   *)
(* setupMicrophoneMonitoring (lines 323-366), then lines 412-420.  The     *)
(* closure is that of the click: isRecording is false in it.               *)
(* recognition.start() throws InvalidStateError unless the recognizer is   *)
(* idle.                                                                   *)
(***************************************************************************)
startRecordingResume(granted, level) ==
    /\ pending > 0
    /\ pending' = pending - 1
    /\ LET click_isRecording == FALSE
           \* monitorVolume: if (analyserRef.current && isRecording)
           monitors == granted /\ click_isRecording
       IN  IF rec = "idle"
           THEN /\ rec' = "starting"
                /\ results' = <<>>
                /\ startCall' = "started"
                /\ error' = micError(granted, error)
                /\ audioRefs' = (audioRefs \/ granted)
                /\ analyserRef' = (analyserRef \/ granted)
                /\ animationRef' = (animationRef \/ monitors)
                /\ micLevel' = IF monitors THEN level ELSE micLevel
                /\ environmentStatus' =
                       IF monitors THEN statusOf(level) ELSE environmentStatus
                /\ UNCHANGED <<isRecording, reconnectAttempts, lastActivity,
                               reconnectTimeoutRef, activityCheckRef, timers>>
           ELSE /\ startCall' = "threw"
                /\ error' = MsgStartFailed
                /\ isRecording' = FALSE
                \* cleanupMicrophoneMonitoring()
                /\ animationRef' = FALSE
                /\ audioRefs' = FALSE
                /\ analyserRef' = (analyserRef \/ granted)
                /\ micLevel' = 0
                /\ environmentStatus' = "quiet"
                \* cleanupReconnection()
                /\ timers' = clearReconnectTimeout(timers)
                /\ reconnectTimeoutRef' = FALSE
                /\ activityCheckRef' = "none"
                /\ UNCHANGED <<rec, results, reconnectAttempts, lastActivity>>
    /\ UNCHANGED <<transcription, isListening, sumVars, envVars, now,
                   kwVars>>

(***************************************************************************)
(* stopRecording (lines 424-435).  The button is disabled unless           *)
(* isRecording.  recognition.stop() makes a started recognizer end.        *)
(***************************************************************************)
stopRecording ==
    /\ isRecording
    /\ IF recognitionRef
       THEN /\ rec' = IF rec \in {"starting", "listening"} THEN "stopping" ELSE rec
            /\ isRecording' = FALSE
            /\ isListening' = FALSE
            /\ reconnectAttempts' = 0
            \* cleanupMicrophoneMonitoring()
            /\ animationRef' = FALSE
            /\ audioRefs' = FALSE
            /\ micLevel' = 0
            /\ environmentStatus' = "quiet"
            \* cleanupReconnection()
            /\ timers' = clearReconnectTimeout(timers)
            /\ reconnectTimeoutRef' = FALSE
            /\ activityCheckRef' = "none"
            /\ startCall' = "none"
            /\ UNCHANGED <<transcription, error, lastActivity, analyserRef,
                           sumVars, envVars, pending, results, now, kwVars>>
       ELSE /\ startCall' = "none"
            /\ UNCHANGED <<transcription, isRecording, isListening, error,
                           reconnectAttempts, lastActivity, micVars, sumVars,
                           envVars, reconnectTimeoutRef, activityCheckRef,
                           timers, pending, rec, results, now, kwVars>>

(***************************************************************************)
(* The recognizer's events.  The handlers are those the effect of lines    *)
(* 78-228 installed: isRecording, reconnectAttempts and lastActivity are   *)
(* read from the first render (mount_...), the functional updates          *)
(* (prev) => ... and the refs act on the current state.                    *)
(***************************************************************************)

\* recognition.onstart (lines 211-213)
onstart ==
    /\ rec = "starting"
    /\ rec' = "listening"
    /\ isListening' = TRUE
    /\ startCall' = "none"
    /\ UNCHANGED <<transcription, isRecording, error, reconnectAttempts,
                   lastActivity, micVars, sumVars, envVars,
                   reconnectTimeoutRef, activityCheckRef, timers, pending,
                   results, now, kwVars>>

\* recognition.onresult (lines 99-134) on an event whose results are rs
onresult(rs) ==
    /\ rec \in {"listening", "stopping"}
    /\ rs \in NextResults(results)
    /\ results' = rs
    /\ lastActivity' = now
    /\ reconnectAttempts' = 0
    /\ transcription' = onresultTranscription(transcription, rs)
    /\ activityCheckRef' =
           activityEffect(activityCheckRef,
                          lastActivity # now \/ reconnectAttempts # 0,
                          isRecording)
    /\ startCall' = "none"
    /\ UNCHANGED <<isRecording, isListening, error, micVars, sumVars,
                   envVars, reconnectTimeoutRef, timers, pending, rec,
                   now, kwVars>>

\* recognition.onerror (lines 136-180) on an event with error = code and
\* message = message.  After an error the recognizer is about to end.
onerror(code, message) ==
    LET transient == code \in {"network", "audio-capture", "aborted"}
        retries == transient /\ mount_reconnectAttempts < 5
        attempts == IF transient THEN increment(reconnectAttempts)
                    ELSE reconnectAttempts
        recording == IF ~retries /\ permissionDenied(code)
                     THEN FALSE ELSE isRecording
    IN  /\ rec \in {"starting", "listening", "stopping"}
        /\ transient => reconnectAttempts < MaxAttempts
        /\ retries => Len(timers) < MaxTimers
        /\ rec' = "stopping"
        /\ reconnectAttempts' = attempts
        /\ IF retries
           THEN /\ error' = MsgRetrying(mount_reconnectAttempts + 1)
                /\ timers' = setReconnectTimeout(timers, "onerror",
                                 retryDelay(mount_reconnectAttempts))
                /\ reconnectTimeoutRef' = TRUE
           ELSE /\ error' = MsgRecognitionError(code, message)
                /\ UNCHANGED <<timers, reconnectTimeoutRef>>
        /\ isRecording' = recording
        /\ activityCheckRef' =
               activityEffect(activityCheckRef,
                              attempts # reconnectAttempts \/ recording # isRecording,
                              recording)
        /\ startCall' = "none"
        /\ UNCHANGED <<transcription, isListening, lastActivity, micVars,
                       sumVars, envVars, pending, results, now, kwVars>>

\* recognition.onend (lines 182-209)
onend ==
    LET restarts == mount_isRecording
                    /\ now - mount_lastActivity < 30000
                    /\ mount_reconnectAttempts < 5
        givesUp == mount_isRecording /\ ~restarts
    IN  /\ rec \in {"starting", "listening", "stopping"}
        /\ restarts => Len(timers) < MaxTimers
        /\ rec' = "idle"
        /\ isListening' = FALSE
        /\ IF restarts
           THEN /\ timers' = setReconnectTimeout(timers, "onend",
                                 restartDelay(mount_reconnectAttempts))
                /\ reconnectTimeoutRef' = TRUE
           ELSE UNCHANGED <<timers, reconnectTimeoutRef>>
        /\ error' = IF givesUp THEN MsgStopped ELSE error
        /\ isRecording' = IF givesUp THEN FALSE ELSE isRecording
        /\ activityCheckRef' =
               activityEffect(activityCheckRef, isRecording' # isRecording,
                              isRecording')
        /\ startCall' = "none"
        /\ UNCHANGED <<transcription, reconnectAttempts, lastActivity, micVars,
                       sumVars, envVars, pending, results, now, kwVars>>

(***************************************************************************)
(* The timers.                                                             *)
(***************************************************************************)

\* ts without its i-th element
RemoveAt(ts, i) == SubSeq(ts, 1, i - 1) \o SubSeq(ts, i + 1, Len(ts))

\* the callback of reconnectTimeoutRef.current = setTimeout(...): that of
\* onerror (lines 156-164) or that of onend (lines 193-203).  Both were made
\* by a handler of the first render and test its isRecording.
reconnectTimeout(i) ==
    /\ i \in 1..Len(timers)
    /\ timers[i].kind \in {"onerror", "onend"}
    /\ timers' = RemoveAt(timers, i)
    /\ LET calls == mount_isRecording /\ recognitionRef
           throws == calls /\ rec # "idle"
           starts == calls /\ rec = "idle"
       IN  /\ startCall' = IF starts THEN "started"
                           ELSE IF throws THEN "threw" ELSE "none"
           /\ rec' = IF starts THEN "starting" ELSE rec
           /\ results' = IF starts THEN <<>> ELSE results
           \* onend's callback: setIsListening(true) after start()
           /\ isListening' = IF starts /\ timers[i].kind = "onend"
                             THEN TRUE ELSE isListening
           \* onend's callback: catch { setReconnectAttempts((prev) => prev + 1) }
           /\ reconnectAttempts' = IF throws /\ timers[i].kind = "onend"
                                   THEN increment(reconnectAttempts)
                                   ELSE reconnectAttempts
           /\ activityCheckRef' =
                  activityEffect(activityCheckRef,
                                 reconnectAttempts' # reconnectAttempts,
                                 isRecording)
    /\ UNCHANGED <<transcription, isRecording, error, lastActivity, micVars,
                   sumVars, envVars, reconnectTimeoutRef, pending, now,
                   kwVars>>

\* the callback of the interval of the activity effect (lines 233-259).  The
\* effect runs again whenever isRecording, lastActivity or reconnectAttempts
\* changes, so the callback reads their current values, and isRecording is
\* true in it.
activityCheck ==
    LET timeSinceLastActivity == now - lastActivity
        restarts == timeSinceLastActivity > 60000 /\ reconnectAttempts < 3
                    /\ recognitionRef
    IN  /\ activityCheckRef = "due"
        /\ restarts => Len(timers) < MaxTimers
        /\ activityCheckRef' = "armed"
        /\ error' = IF timeSinceLastActivity > 30000 THEN MsgInactive ELSE error
        /\ IF restarts
           THEN \* recognitionRef.current.stop(); setTimeout(..., 1000)
                /\ rec' = IF rec \in {"starting", "listening"}
                          THEN "stopping" ELSE rec
                /\ timers' = Append(timers, [kind |-> "inactivity",
                                             delay |-> 1000, held |-> FALSE])
           ELSE UNCHANGED <<rec, timers>>
        /\ startCall' = "none"
        /\ UNCHANGED <<transcription, isRecording, isListening,
                       reconnectAttempts, lastActivity, micVars, sumVars,
                       envVars, reconnectTimeoutRef, pending, results,
                       now, kwVars>>

\* the callback of the setTimeout of the interval's callback (lines 248-253).
\* Its isRecording is that of the render of the interval: true.  start() is
\* not inside a try here: when it throws, the callback ends.
inactivityTimeout(i) ==
    /\ i \in 1..Len(timers)
    /\ timers[i].kind = "inactivity"
    /\ timers' = RemoveAt(timers, i)
    /\ LET interval_isRecording == TRUE
           calls == recognitionRef /\ interval_isRecording
           starts == calls /\ rec = "idle"
       IN  /\ startCall' = IF starts THEN "started"
                           ELSE IF calls THEN "threw" ELSE "none"
           /\ rec' = IF starts THEN "starting" ELSE rec
           /\ results' = IF starts THEN <<>> ELSE results
           /\ lastActivity' = IF starts THEN now ELSE lastActivity
           /\ activityCheckRef' =
                  activityEffect(activityCheckRef, lastActivity' # lastActivity,
                                 isRecording)
    /\ UNCHANGED <<transcription, isRecording, isListening, error,
                   reconnectAttempts, micVars, sumVars, envVars,
                   reconnectTimeoutRef, pending, now, kwVars>>

\* Time passes: one period of the interval.  Every setTimeout of the program
\* is due within a period, so none is pending across it; an interval that is
\* due fires first.
Tick ==
    /\ now < MaxTicks * TickMs
    /\ activityCheckRef # "due"
    /\ timers = <<>>
    /\ now' = now + TickMs
    /\ activityCheckRef' = IF activityCheckRef = "armed" THEN "due" ELSE "none"
    /\ startCall' = "none"
    /\ UNCHANGED <<transcription, isRecording, isListening, error,
                   reconnectAttempts, lastActivity, micVars, sumVars,
                   envVars, reconnectTimeoutRef, timers, pending, rec,
                   results, kwVars>>

\* Time passes once the clock has reached its bound: the clock stays and
\* lastActivity moves back instead, down to 0.  The program reads the two
\* only in  Date.now() - lastActivity  compared with 30000 and 60000, and
\* MaxTicks * TickMs is above both.
TickLate ==
    /\ now = MaxTicks * TickMs
    /\ activityCheckRef # "due"
    /\ timers = <<>>
    /\ lastActivity' = IF lastActivity > TickMs THEN lastActivity - TickMs ELSE 0
    /\ activityCheckRef' = IF activityCheckRef = "armed" THEN "due" ELSE "none"
    /\ startCall' = "none"
    /\ UNCHANGED <<transcription, isRecording, isListening, error,
                   reconnectAttempts, now, micVars, sumVars, envVars,
                   reconnectTimeoutRef, timers, pending, rec, results, kwVars>>

\* a clearAll that leaves the summary and also ends the recording
clearAllStops ==
    /\ transcription' = <<>>
    /\ error' = <<>>
    /\ reconnectAttempts' = 0
    /\ lastActivity' = now
    /\ isRecording' = FALSE
    /\ activityCheckRef' = "none"
    /\ keywords' = <<>>
    /\ startCall' = "none"
    /\ UNCHANGED <<isListening, micVars, isLoading, summarizer, summary,
                   summarizing, envVars, reconnectTimeoutRef, timers, pending,
                   rec, results, now, kwVars>>

(***************************************************************************)
(* clearAll (lines 633-640)                                                *)
(***************************************************************************)
clearAll ==
    /\ transcription' = <<>>
    /\ error' = <<>>
    /\ reconnectAttempts' = 0
    /\ lastActivity' = now
    /\ activityCheckRef' =
           activityEffect(activityCheckRef,
                          reconnectAttempts # 0 \/ lastActivity # now,
                          isRecording)
    /\ summary' = <<>>
    /\ keywords' = <<>>
    /\ startCall' = "none"
    /\ UNCHANGED <<isRecording, isListening, micVars, isLoading, summarizer,
                   summarizing, envVars, reconnectTimeoutRef, timers, pending,
                   rec, results, now, kwVars>>

(***************************************************************************)
(* initSummarizer (lines 277-303): the two awaits of pipeline(...)         *)
(***************************************************************************)

\* the first pipeline(...) settles
initSummarizer(loaded) ==
    /\ summarizer = "loading"
    /\ summarizer' = IF loaded THEN "ready" ELSE "fallback"
    /\ isLoading' = IF loaded THEN FALSE ELSE isLoading
    /\ startCall' = "none"
    /\ UNCHANGED <<transcription, isRecording, isListening, error,
                   reconnectAttempts, lastActivity, micVars, envVars,
                   reconnectTimeoutRef, activityCheckRef, timers, pending, rec,
                   results, now, kwVars, summary, keywords, summarizing>>

\* the pipeline(...) of the fallback model settles
initSummarizerFallback(loaded) ==
    /\ summarizer = "fallback"
    /\ summarizer' = IF loaded THEN "ready" ELSE "failed"
    /\ error' = IF loaded THEN error ELSE MsgModelLoadFailed
    /\ isLoading' = FALSE
    /\ startCall' = "none"
    /\ UNCHANGED <<transcription, isRecording, isListening, reconnectAttempts,
                   lastActivity, micVars, envVars, reconnectTimeoutRef,
                   activityCheckRef, timers, pending, rec, results, now, kwVars,
                   summary, keywords, summarizing>>

(***************************************************************************)
(* summarizeText (lines 521-587).  Its button is disabled while the        *)
(* transcript is blank or isLoading.                                       *)
(***************************************************************************)

\* what the summarizer gives: "s"
Summaries == {<<115>>}

\* the value undefined of a state that holds a text otherwise; -1 is no code
\* unit
undefined == <<-1>>

\* what the await of the summarizer ends in: a summary ([{summary_text}]),
\* an exception, a result without a first element ([] or undefined, reading
\* summaryResult[0].summary_text throws), or a first element without
\* summary_text ([{}], summaryResult[0].summary_text is undefined)
Outcomes == {"summary", "threw", "malformed", "noSummaryText"}

\* summarizeText up to  await summarizerRef.current(...)
summarizeText ==
    /\ trim(transcription) # <<>>
    /\ ~isLoading
    /\ IF summarizer # "ready"
       THEN /\ error' = MsgModelNotLoaded
            /\ UNCHANGED <<isLoading, keywords, summarizing>>
       ELSE /\ isLoading' = TRUE
            /\ error' = <<>>
            /\ keywords' = extractKeywords(processedText(transcription))
            /\ summarizing' = Append(summarizing, processedText(transcription))
    /\ startCall' = "none"
    /\ UNCHANGED <<transcription, isRecording, isListening, reconnectAttempts,
                   lastActivity, micVars, summarizer, summary, envVars,
                   reconnectTimeoutRef, activityCheckRef, timers, pending, rec,
                   results, now, kwVars>>

\* the rest of summarizeText once the summarizer has settled
summarizeTextResume(outcome, text) ==
    /\ summarizing # <<>>
    /\ summarizing' = Tail(summarizing)
    /\ summary' = IF outcome = "summary" THEN text
                  ELSE IF outcome = "threw"
                       THEN createExtractiveSummary(Head(summarizing))
                  ELSE IF outcome = "noSummaryText" THEN undefined
                       ELSE summary
    /\ error' = IF outcome = "malformed" THEN MsgSummarizeFailed ELSE error
    /\ isLoading' = FALSE
    /\ startCall' = "none"
    /\ UNCHANGED <<transcription, isRecording, isListening, reconnectAttempts,
                   lastActivity, micVars, summarizer, keywords, envVars,
                   reconnectTimeoutRef, activityCheckRef, timers, pending, rec,
                   results, now, kwVars>>

(***************************************************************************)
(* The textarea of the transcript: onChange={(e) =>                        *)
(* setTranscription(e.target.value)} (src/unnamed/part_002 line 763,       *)
(* src/app/page.tsx line 470).                                             *)
(***************************************************************************)

\* what the user types: "aa"
Edits == {<<97, 97>>}

onChange(text) ==
    /\ transcription # text
    /\ transcription' = text
    /\ startCall' = "none"
    /\ UNCHANGED <<isRecording, isListening, error, reconnectAttempts,
                   lastActivity, micVars, sumVars, envVars,
                   reconnectTimeoutRef, activityCheckRef, timers, pending, rec,
                   results, now, kwVars>>

(***************************************************************************)
(* The page of src/app/page.tsx.  It has the state of the other page       *)
(* without reconnectAttempts, lastActivity, keywords and the two timer     *)
(* refs, which keep their initial values here.                             *)
(***************************************************************************)

\* the state after the mount of src/app/page.tsx (lines 53-186)
app_Init ==
    /\ transcription = <<>>
    /\ isRecording = FALSE
    /\ isListening = FALSE
    /\ recognitionRef \in BOOLEAN
    /\ error = IF recognitionRef THEN <<>> ELSE MsgUnsupported
    /\ reconnectAttempts = 0
    /\ lastActivity = 0
    /\ isLoading = TRUE
    /\ micLevel = 0
    /\ environmentStatus = "quiet"
    /\ audioRefs = FALSE
    /\ analyserRef = FALSE
    /\ animationRef = FALSE
    /\ reconnectTimeoutRef = FALSE
    /\ activityCheckRef = "none"
    /\ timers = <<>>
    /\ pending = 0
    /\ summarizer = "loading"
    /\ rec = "idle"
    /\ results = <<>>
    /\ now = 0
    /\ startCall = "none"
    /\ kwInput = <<>>
    /\ kwCount = 0
    /\ kwOutput = <<"none">>
    /\ summary = <<>>
    /\ keywords = <<>>
    /\ summarizing = <<>>
    /\ page = "app"

\* startRecording (lines 267-284) up to  await setupMicrophoneMonitoring()
app_startRecording ==
    /\ ~isRecording
    /\ pending < MaxPending
    /\ IF recognitionRef
       THEN /\ error' = <<>>
            /\ isRecording' = TRUE
            /\ pending' = pending + 1
       ELSE UNCHANGED <<error, isRecording, pending>>
    /\ startCall' = "none"
    /\ UNCHANGED <<transcription, isListening, micVars, sumVars, envVars,
                   timers, rec, results, kwVars, reconnectAttempts,
                   lastActivity, reconnectTimeoutRef, activityCheckRef, now>>

\* the rest of startRecording once getUserMedia has settled: the rest of
\* setupMicrophoneMonitoring (lines 203-246), then lines 275-282.  The
\* closure is that of the click: isRecording is false in it.
app_startRecordingResume(granted, level) ==
    /\ pending > 0
    /\ pending' = pending - 1
    /\ LET click_isRecording == FALSE
           monitors == granted /\ click_isRecording
       IN  IF rec = "idle"
           THEN /\ rec' = "starting"
                /\ results' = <<>>
                /\ startCall' = "started"
                /\ error' = micError(granted, error)
                /\ audioRefs' = (audioRefs \/ granted)
                /\ analyserRef' = (analyserRef \/ granted)
                /\ animationRef' = (animationRef \/ monitors)
                /\ micLevel' = IF monitors THEN level ELSE micLevel
                /\ environmentStatus' =
                       IF monitors THEN statusOf(level) ELSE environmentStatus
                /\ UNCHANGED isRecording
           ELSE /\ startCall' = "threw"
                /\ error' = MsgStartFailed
                /\ isRecording' = FALSE
                \* cleanupMicrophoneMonitoring()
                /\ animationRef' = FALSE
                /\ audioRefs' = FALSE
                /\ analyserRef' = (analyserRef \/ granted)
                /\ micLevel' = 0
                /\ environmentStatus' = "quiet"
                /\ UNCHANGED <<rec, results>>
    /\ UNCHANGED <<transcription, isListening, sumVars, envVars, timers,
                   kwVars, reconnectAttempts, lastActivity,
                   reconnectTimeoutRef, activityCheckRef, now>>

\* stopRecording (lines 286-295); its button is disabled unless isRecording
app_stopRecording ==
    /\ isRecording
    /\ IF recognitionRef
       THEN /\ rec' = IF rec \in {"starting", "listening"} THEN "stopping" ELSE rec
            /\ isRecording' = FALSE
            /\ isListening' = FALSE
            \* cleanupMicrophoneMonitoring()
            /\ animationRef' = FALSE
            /\ audioRefs' = FALSE
            /\ micLevel' = 0
            /\ environmentStatus' = "quiet"
       ELSE UNCHANGED <<rec, isRecording, isListening, animationRef, audioRefs,
                        micLevel, environmentStatus>>
    /\ startCall' = "none"
    /\ UNCHANGED <<transcription, error, analyserRef, sumVars, envVars, timers,
                   pending, results, kwVars, reconnectAttempts, lastActivity,
                   reconnectTimeoutRef, activityCheckRef, now>>

\* recognition.onstart (lines 149-151)
app_onstart ==
    /\ rec = "starting"
    /\ rec' = "listening"
    /\ isListening' = TRUE
    /\ startCall' = "none"
    /\ UNCHANGED <<transcription, isRecording, error, micVars, sumVars,
                   envVars, timers, pending, results, kwVars,
                   reconnectAttempts, lastActivity, reconnectTimeoutRef,
                   activityCheckRef, now>>

\* recognition.onresult (lines 93-124)
app_onresult(rs) ==
    /\ rec \in {"listening", "stopping"}
    /\ rs \in NextResults(results)
    /\ results' = rs
    /\ transcription' = onresultTranscription(transcription, rs)
    /\ startCall' = "none"
    /\ UNCHANGED <<isRecording, isListening, error, micVars, sumVars, envVars,
                   timers, pending, rec, kwVars, reconnectAttempts,
                   lastActivity, reconnectTimeoutRef, activityCheckRef, now>>

\* recognition.onerror (lines 126-129).  After an error the recognizer is
\* about to end.
app_onerror(code) ==
    /\ rec \in {"starting", "listening", "stopping"}
    /\ rec' = "stopping"
    /\ error' = app_MsgRecognitionError(code)
    /\ isRecording' = FALSE
    /\ startCall' = "none"
    /\ UNCHANGED <<transcription, isListening, micVars, sumVars, envVars,
                   timers, pending, results, kwVars, reconnectAttempts,
                   lastActivity, reconnectTimeoutRef, activityCheckRef, now>>

\* recognition.onend (lines 131-147): the handler of the first render
app_onend ==
    /\ rec \in {"starting", "listening", "stopping"}
    /\ mount_isRecording => Len(timers) < MaxTimers
    /\ rec' = "idle"
    /\ IF mount_isRecording
       THEN /\ timers' = Append(timers, [kind |-> "app_onend", delay |-> 100,
                                         held |-> FALSE])
            /\ UNCHANGED isListening
       ELSE /\ isListening' = FALSE
            /\ UNCHANGED timers
    /\ startCall' = "none"
    /\ UNCHANGED <<transcription, isRecording, error, micVars, sumVars,
                   envVars, pending, results, kwVars, reconnectAttempts,
                   lastActivity, reconnectTimeoutRef, activityCheckRef, now>>

\* the callback of the setTimeout of onend (lines 134-143)
app_restartTimeout(i) ==
    /\ i \in 1..Len(timers)
    /\ timers[i].kind = "app_onend"
    /\ timers' = RemoveAt(timers, i)
    /\ LET calls == recognitionRef /\ mount_isRecording
           starts == calls /\ rec = "idle"
       IN  /\ startCall' = IF starts THEN "started"
                           ELSE IF calls THEN "threw" ELSE "none"
           /\ rec' = IF starts THEN "starting" ELSE rec
           /\ results' = IF starts THEN <<>> ELSE results
           /\ isListening' = IF starts THEN TRUE ELSE isListening
    /\ UNCHANGED <<transcription, isRecording, error, micVars, sumVars,
                   envVars, pending, kwVars, reconnectAttempts, lastActivity,
                   reconnectTimeoutRef, activityCheckRef, now>>

\* clearAll (lines 350-354)
app_clearAll ==
    /\ transcription' = <<>>
    /\ summary' = <<>>
    /\ error' = <<>>
    /\ startCall' = "none"
    /\ UNCHANGED <<isRecording, isListening, micVars, isLoading, summarizer,
                   keywords, summarizing, envVars, timers, pending, rec,
                   results, kwVars, reconnectAttempts, lastActivity,
                   reconnectTimeoutRef, activityCheckRef, now>>

\* initSummarizer (lines 169-183): the await of pipeline(...) settles
app_initSummarizer(loaded) ==
    /\ summarizer = "loading"
    /\ summarizer' = IF loaded THEN "ready" ELSE "failed"
    /\ error' = IF loaded THEN error ELSE MsgModelLoadFailed
    /\ isLoading' = FALSE
    /\ startCall' = "none"
    /\ UNCHANGED <<transcription, isRecording, isListening, micVars, summary,
                   keywords, summarizing, envVars, timers, pending, rec,
                   results, kwVars, reconnectAttempts, lastActivity,
                   reconnectTimeoutRef, activityCheckRef, now>>

\* summarizeText (lines 297-332) up to  await summarizerRef.current(...);
\* its button is disabled while the transcript is blank or isLoading
app_summarizeText ==
    /\ trim(transcription) # <<>>
    /\ ~isLoading
    /\ IF summarizer # "ready"
       THEN /\ error' = MsgModelNotLoaded
            /\ UNCHANGED <<isLoading, summarizing>>
       ELSE /\ isLoading' = TRUE
            /\ error' = <<>>
            /\ summarizing' = Append(summarizing, textToSummarize(transcription))
    /\ startCall' = "none"
    /\ UNCHANGED <<transcription, isRecording, isListening, micVars,
                   summarizer, summary, keywords, envVars, timers, pending,
                   rec, results, kwVars, reconnectAttempts, lastActivity,
                   reconnectTimeoutRef, activityCheckRef, now>>

\* the rest of summarizeText once the summarizer has settled
app_summarizeTextResume(outcome, text) ==
    /\ summarizing # <<>>
    /\ summarizing' = Tail(summarizing)
    /\ summary' = IF outcome = "summary" THEN text
                  ELSE IF outcome = "noSummaryText" THEN undefined
                  ELSE summary
    /\ error' = IF outcome \in {"summary", "noSummaryText"}
                THEN error ELSE MsgSummarizeFailed
    /\ isLoading' = FALSE
    /\ startCall' = "none"
    /\ UNCHANGED <<transcription, isRecording, isListening, micVars,
                   summarizer, keywords, envVars, timers, pending, rec,
                   results, kwVars, reconnectAttempts, lastActivity,
                   reconnectTimeoutRef, activityCheckRef, now>>

(***************************************************************************)
(* The driver of extractKeywords: a text is put together from pieces, then *)
(* the function is applied to it.                                          *)
(***************************************************************************)

\* "aa bb cc dd ee ff gg hh ": eight words that count
EightWords == <<97, 97, 32, 98, 98, 32, 99, 99, 32, 100, 100, 32, 101, 101, 32,
                102, 102, 32, 103, 103, 32, 104, 104, 32>>

\* the texts a run starts from
BaseTexts == {<<>>, EightWords}

\* the pieces appended to a text
Pieces == {
    <<97, 97, 32>>,                                       \* "aa "
    <<105, 105, 10>>,                                     \* "ii\n"
    <<99, 111, 110, 115, 116, 114, 117, 99, 116, 111, 114, 32>>,
                                                          \* "constructor "
    <<95, 95, 112, 114, 111, 116, 111, 95, 95, 32>>,      \* "__proto__ "
    <<50, 53, 32>>,                                       \* "25 "
    <<49, 48, 48, 32>>,                                   \* "100 "
    <<44536, 44163, 32>>,                                 \* "그것 ", a stop word
    <<97, 46>>,                                           \* "a."
    <<91, 51076, 49884, 93>>,                             \* "[임시]"
    <<54924, 51032, 44>> }                                \* "회의,"

\* the text the function is applied to
kwChoose(text) ==
    /\ kwOutput = <<"none">>
    /\ kwInput = <<>>
    /\ kwCount = 0
    /\ text # <<>>
    /\ kwInput' = text
    /\ UNCHANGED <<kwCount, kwOutput, pageVars>>

kwAppend(piece) ==
    /\ kwOutput = <<"none">>
    /\ kwCount < MaxPieces
    /\ kwInput' = kwInput \o piece
    /\ kwCount' = kwCount + 1
    /\ UNCHANGED <<kwOutput, pageVars>>

\* const extractedKeywords = extractKeywords(processedText)
kwExtract ==
    /\ kwOutput = <<"none">>
    /\ kwOutput' = <<"ok", extractKeywords(kwInput)>>
    /\ UNCHANGED <<kwInput, kwCount, pageVars>>

(***************************************************************************)
(* The specifications.                                                     *)
(***************************************************************************)

\* the results the recognizer may report next, within the bounds
BoundedResults(maxResults, maxTranscript) ==
    {rs \in NextResults(results) :
        /\ Len(rs) <= maxResults
        /\ Len(onresultTranscription(transcription, rs)) <= maxTranscript}

\* Spec: the page of src/unnamed/part_002 with its buttons, the recognizer's
\* events, the reconnect timers and the loading of the summarizer; the clock
\* stands still
Next ==
    \/ startRecording
    \/ \E granted \in BOOLEAN, level \in Levels : startRecordingResume(granted, level)
    \/ stopRecording
    \/ onstart
    \/ \E rs \in BoundedResults(SessionMaxResults, SessionMaxTranscript) : onresult(rs)
    \/ \E code \in ErrorCodes, message \in ErrorMessages : onerror(code, message)
    \/ onend
    \/ \E i \in 1..MaxTimers : reconnectTimeout(i)
    \/ clearAll
    \/ \E loaded \in BOOLEAN : initSummarizer(loaded)
    \/ \E loaded \in BOOLEAN : initSummarizerFallback(loaded)

Spec == Init /\ [][Next]_vars

\* SpecTranscript: the page with a recognizer that reports results and no
\* errors
NextTranscript ==
    \/ startRecording
    \/ \E granted \in BOOLEAN, level \in Levels : startRecordingResume(granted, level)
    \/ stopRecording
    \/ onstart
    \/ \E rs \in BoundedResults(MaxResults, MaxTranscript) : onresult(rs)
    \/ onend
    \/ clearAll

SpecTranscript == Init /\ [][NextTranscript]_vars

\* SpecActivity: the page with the clock and the activity interval
NextActivity ==
    \/ startRecording
    \/ \E granted \in BOOLEAN, level \in Levels : startRecordingResume(granted, level)
    \/ stopRecording
    \/ onstart
    \/ \E code \in ErrorCodes, message \in ErrorMessages : onerror(code, message)
    \/ onend
    \/ \E i \in 1..MaxTimers : reconnectTimeout(i)
    \/ activityCheck
    \/ \E i \in 1..MaxTimers : inactivityTimeout(i)
    \/ Tick
    \/ clearAll

SpecActivity == Init /\ [][NextActivity]_vars

\* SpecLive: the page with the clock, in which what is scheduled happens:
\* time passes, the interval and the timers fire, getUserMedia settles, a
\* started recognizer reports its start and a stopping recognizer ends.  The
\* user and the errors of the recognizer are free.
NextLive ==
    \/ startRecording
    \/ \E granted \in BOOLEAN, level \in Levels : startRecordingResume(granted, level)
    \/ stopRecording
    \/ onstart
    \/ \E code \in ErrorCodes, message \in ErrorMessages : onerror(code, message)
    \/ onend
    \/ \E i \in 1..MaxTimers : reconnectTimeout(i)
    \/ activityCheck
    \/ \E i \in 1..MaxTimers : inactivityTimeout(i)
    \/ Tick
    \/ TickLate

SpecLive ==
    /\ Init
    /\ [][NextLive]_vars
    /\ WF_vars(Tick \/ TickLate)
    /\ WF_vars(activityCheck)
    /\ WF_vars(\E i \in 1..MaxTimers : inactivityTimeout(i))
    /\ WF_vars(\E i \in 1..MaxTimers : reconnectTimeout(i))
    /\ WF_vars(\E granted \in BOOLEAN, level \in Levels :
                   startRecordingResume(granted, level))
    /\ WF_vars(onstart)
    /\ WF_vars(rec = "stopping" /\ onend)

\* SpecErrors: either page with its start and stop buttons and the
\* recognizer's events, results left out; the clock stands still
NextErrors ==
    \/ page = "part_002" /\ startRecording
    \/ page = "part_002" /\ \E granted \in BOOLEAN, level \in Levels :
                                 startRecordingResume(granted, level)
    \/ page = "part_002" /\ stopRecording
    \/ page = "part_002" /\ onstart
    \/ page = "part_002" /\ \E code \in ErrorCodes, message \in ErrorMessages :
                                 onerror(code, message)
    \/ page = "part_002" /\ onend
    \/ page = "part_002" /\ \E i \in 1..MaxTimers : reconnectTimeout(i)
    \/ page = "app" /\ app_startRecording
    \/ page = "app" /\ \E granted \in BOOLEAN, level \in Levels :
                            app_startRecordingResume(granted, level)
    \/ page = "app" /\ app_stopRecording
    \/ page = "app" /\ app_onstart
    \/ page = "app" /\ \E code \in ErrorCodes : app_onerror(code)
    \/ page = "app" /\ app_onend

SpecErrors == (Init \/ app_Init) /\ [][NextErrors]_vars

\* SpecControls: either page with its buttons, its textarea, the recognizer
\* (of errors, the network error alone) and the summarizer; the clock stands
\* still
NextControls ==
    \/ page = "part_002" /\ startRecording
    \/ page = "part_002" /\ \E granted \in BOOLEAN, level \in Levels :
                                 startRecordingResume(granted, level)
    \/ page = "part_002" /\ stopRecording
    \/ page = "part_002" /\ onstart
    \/ page = "part_002" /\
           \E rs \in BoundedResults(SessionMaxResults, SessionMaxTranscript) :
               onresult(rs)
    \/ page = "part_002" /\ \E message \in ErrorMessages : onerror("network", message)
    \/ page = "part_002" /\ onend
    \/ page = "part_002" /\ clearAll
    \/ page = "part_002" /\ \E loaded \in BOOLEAN : initSummarizer(loaded)
    \/ page = "part_002" /\ \E loaded \in BOOLEAN : initSummarizerFallback(loaded)
    \/ page = "part_002" /\ summarizeText
    \/ page = "part_002" /\ \E outcome \in Outcomes, text \in Summaries :
                                 summarizeTextResume(outcome, text)
    \/ \E text \in Edits : onChange(text)
    \/ page = "app" /\ app_startRecording
    \/ page = "app" /\ \E granted \in BOOLEAN, level \in Levels :
                            app_startRecordingResume(granted, level)
    \/ page = "app" /\ app_stopRecording
    \/ page = "app" /\ app_onstart
    \/ page = "app" /\
           \E rs \in BoundedResults(SessionMaxResults, SessionMaxTranscript) :
               app_onresult(rs)
    \/ page = "app" /\ app_onerror("network")
    \/ page = "app" /\ app_onend
    \/ page = "app" /\ app_clearAll
    \/ page = "app" /\ \E loaded \in BOOLEAN : app_initSummarizer(loaded)
    \/ page = "app" /\ app_summarizeText
    \/ page = "app" /\ \E outcome \in Outcomes, text \in Summaries :
                            app_summarizeTextResume(outcome, text)

SpecControls == (Init \/ app_Init) /\ [][NextControls]_vars

\* SpecKeywords: extractKeywords on the texts of the driver
NextKeywords ==
    \/ \E text \in BaseTexts : kwChoose(text)
    \/ \E piece \in Pieces : kwAppend(piece)
    \/ kwExtract

SpecKeywords == Init /\ [][NextKeywords]_vars


\* ---------------------------------------------------------------------------
\* The transcript
\* ---------------------------------------------------------------------------

\* the number of places of s where pat occurs
Occurrences(s, pat) == Cardinality({i \in 1..Len(s) : MatchesAt(s, pat, i)})

\* the committed text of a transcript: what precedes its first provisional
\* marker, or all of it when it holds none
committed(t) ==
    LET p == indexOf(t, ProvisionalMarker)
    IN  IF p = 0 THEN t ELSE SubSeq(t, 1, p - 1)

\* the number of results of rs that are final and read w
FinalCount(rs, w) ==
    Cardinality({i \in 1..Len(rs) : rs[i].isFinal /\ rs[i].transcript = w})

\* the number of tokens of s that read w
TokenCount(s, w) ==
    LET ws == split(s)
    IN  Cardinality({i \in 1..Len(ws) : ws[i] = w})

\* a step of the result handler
ResultStep == \E rs \in NextResults(results) : onresult(rs)

\* C1: the transcription never holds more than one "[임시]" marker: a new
\* interim result replaces the provisional segment of the previous one.
C1_AtMostOneProvisional == Occurrences(transcription, ProvisionalMarker) <= 1

\* C7: a result event adds to the committed text each segment that became
\* final in it exactly once, and repeats none of the segments finalized by
\* an earlier event.
C7_FinalAppendedOnce ==
    [][ResultStep =>
          \A w \in Segments :
              TokenCount(committed(transcription'), w)
                = TokenCount(committed(transcription), w)
                    + FinalCount(results', w) - FinalCount(results, w)]_vars


\* ---------------------------------------------------------------------------
\* Reconnection
\* ---------------------------------------------------------------------------

\* the error codes the error handler retries on
TransientCodes == {"network", "audio-capture", "aborted"}

\* a step of the error handler on a transient error
TransientErrorStep ==
    \E code \in TransientCodes : \E message \in ErrorMessages :
        onerror(code, message)

\* a step in which a retry timer of the error handler fires
RetryTimerStep ==
    \E i \in 1..Len(timers) : timers[i].kind = "onerror" /\ reconnectTimeout(i)

\* the timer a step has just scheduled
scheduled == timers'[Len(timers')]

\* C2: once reconnectAttempts has reached 5 a further transient error
\* schedules no retry and shows the generic recognition error message.
C2_RetriesBounded ==
    [][\A code \in TransientCodes : \A message \in ErrorMessages :
           onerror(code, message) /\ reconnectAttempts >= 5
               => /\ timers' = timers
                  /\ error' = MsgRecognitionError(code, message)]_vars

\* C3: while the user is recording, a retry timer of the error handler that
\* elapses invokes recognition.start().
C3_RetryStarts ==
    [][RetryTimerStep /\ isRecording /\ recognitionRef
           => startCall' # "none"]_vars

\* C4: the retry scheduled by the k-th consecutive transient error, k being
\* reconnectAttempts before the event, has delay min(1000 * 2^k, 10000) ms.
C4_RetryDelay ==
    [][TransientErrorStep /\ reconnectAttempts < 5
           => /\ Len(timers') = Len(timers) + 1
              /\ scheduled.kind = "onerror"
              /\ scheduled.delay = retryDelay(reconnectAttempts)]_vars

\* C5: when recognition ends while the user is recording, activity is less
\* than 30 s old and fewer than 5 attempts were made, a restart is scheduled
\* after min(500 + reconnectAttempts * 200, 2000) ms.
C5_EndRestarts ==
    [][onend /\ isRecording /\ now - lastActivity < 30000
             /\ reconnectAttempts < 5
           => /\ Len(timers') = Len(timers) + 1
              /\ scheduled.kind = "onend"
              /\ scheduled.delay = restartDelay(reconnectAttempts)]_vars

\* C6: recognition.start() is never invoked while the user is not recording:
\* after stopRecording nothing starts the recognizer until startRecording.
C6_NoStartAfterStop == startCall = "started" => isRecording


\* ---------------------------------------------------------------------------
\* Errors
\* ---------------------------------------------------------------------------

\* a step of the error handler
ErrorStep ==
    \E code \in ErrorCodes : \E message \in ErrorMessages : onerror(code, message)

\* a step in which startRecording goes on after getUserMedia was refused
MicrophoneFailedStep ==
    \E level \in Levels : startRecordingResume(FALSE, level)

\* a step in which the recognition.start() of startRecording throws
StartThrowsStep ==
    /\ \E granted \in BOOLEAN : \E level \in Levels :
           startRecordingResume(granted, level)
    /\ startCall' = "threw"

\* a step in which the second of the two summarization models fails to load
ModelsFailedStep == initSummarizerFallback(FALSE)

\* C8: after a recognition error event, a refused microphone, a throwing
\* recognition.start() in startRecording and the failure of both summarization
\* models, the error state is a message that is not empty.
C8_ErrorsSurfaced ==
    [][ErrorStep \/ MicrophoneFailedStep \/ StartThrowsStep \/ ModelsFailedStep
           => error' # <<>>]_vars

\* C8 happens: the microphone was refused, recognition started all the same
\* and the page shows the message of the microphone
C8_Witness == startCall = "started" /\ error = MsgMicrophone

\* ---------------------------------------------------------------------------
\* The keywords
\* ---------------------------------------------------------------------------

\* w is a token of s: a longest run of s without white space
IsToken(s, w) ==
    \E i \in 1..Len(s) : \E j \in i..Len(s) :
        /\ SubSeq(s, i, j) = w
        /\ \A k \in i..j : ~IsSpace(s[k])
        /\ i = 1 \/ IsSpace(s[i - 1])
        /\ j = Len(s) \/ IsSpace(s[j + 1])

\* the number of tokens of s that read w
Frequency(s, w) ==
    Cardinality({i \in 1..Len(s) :
        /\ i + Len(w) - 1 <= Len(s)
        /\ SubSeq(s, i, i + Len(w) - 1) = w
        /\ i = 1 \/ IsSpace(s[i - 1])
        /\ i + Len(w) - 1 = Len(s) \/ IsSpace(s[i + Len(w)])})

\* the tokens of s that count: two code units at least and no stop word
Counted(s) ==
    {w \in {SubSeq(s, i, j) : i \in 1..Len(s), j \in 1..Len(s)} :
        IsToken(s, w) /\ Len(w) >= 2 /\ w \notin stopWords}

\* C9: extractKeywords returns at most 8 keywords, all different, each of
\* two code units at least, none a stop word, each a token of the cleaned
\* text.
C9_KeywordsWellFormed ==
    kwOutput[1] = "ok" =>
        LET ks == kwOutput[2]
            cleaned == cleanText(kwInput)
        IN  /\ Len(ks) <= 8
            /\ \A i \in 1..Len(ks) : \A j \in 1..Len(ks) : ks[i] = ks[j] => i = j
            /\ \A i \in 1..Len(ks) :
                   /\ Len(ks[i]) >= 2
                   /\ ks[i] \notin stopWords
                   /\ IsToken(cleaned, ks[i])

\* C9 happens: the text holds more than 8 words that count, of which 8 are
\* returned
C9_Witness ==
    /\ kwOutput[1] = "ok"
    /\ Len(kwOutput[2]) = 8
    /\ Cardinality(Counted(cleanText(kwInput))) > 8

\* C10: the keywords are in order of frequency, the most frequent first, and
\* no word that counts and was left out is more frequent than a keyword.
C10_MostFrequentFirst ==
    kwOutput[1] = "ok" =>
        LET ks == kwOutput[2]
            cleaned == cleanText(kwInput)
            kept == {ks[i] : i \in 1..Len(ks)}
        IN  /\ \A i \in 1..Len(ks) : \A j \in i..Len(ks) :
                   Frequency(cleaned, ks[i]) >= Frequency(cleaned, ks[j])
            /\ \A w \in Counted(cleaned) \ kept : \A k \in kept :
                   Frequency(cleaned, k) >= Frequency(cleaned, w)


\* ---------------------------------------------------------------------------
\* The controls
\* ---------------------------------------------------------------------------

\* C11: clearAll empties the transcript, the summary and the error message
\* (in src/unnamed/part_002 the keywords too, and sets reconnectAttempts to 0)
\* and leaves isRecording, isListening, isLoading and the recognizer as they
\* are.
C11_ClearAllFrame ==
    [][(page = "part_002" /\ clearAll) \/ (page = "app" /\ app_clearAll)
           => /\ transcription' = <<>>
              /\ summary' = <<>>
              /\ error' = <<>>
              /\ page = "part_002" => keywords' = <<>> /\ reconnectAttempts' = 0
              /\ UNCHANGED <<isRecording, isListening, isLoading, rec,
                             recognitionRef>>]_vars

\* C11 happens: clearAll has emptied the transcript of a session that goes on
\* while the summarizer is loaded
C11_Witness ==
    /\ results # <<>>
    /\ transcription = <<>>
    /\ summary = <<>>
    /\ summarizer = "ready"
    /\ isRecording
    /\ isListening


\* ---------------------------------------------------------------------------
\* The volume monitor
\* ---------------------------------------------------------------------------

\* C12: when startRecording goes on with the microphone granted while the
\* user is recording, monitorVolume samples the analyser, sets micLevel to the
\* sampled level and has its next animation frame pending.
C12_MonitorRuns ==
    [][\A level \in Levels :
           startRecordingResume(TRUE, level) /\ isRecording /\ isRecording'
               => animationRef' /\ micLevel' = level]_vars


\* ---------------------------------------------------------------------------
\* The browser without speech recognition
\* ---------------------------------------------------------------------------

\* C13: without a speech-recognition constructor the message of the
\* unsupported browser is set at the mount, startRecording and stopRecording
\* change nothing, and isRecording and isListening are false in every state.
C13_Unsupported ==
    /\ ~recognitionRef => error = MsgUnsupported
    /\ [](~recognitionRef => ~isRecording /\ ~isListening)
    /\ [][~recognitionRef /\ (startRecording \/ stopRecording)
              => UNCHANGED vars]_vars

\* C13 happens: in a browser without speech recognition the start button can
\* be pressed, after the summarizer has failed to load
C13_Witness ==
    /\ ~recognitionRef
    /\ summarizer = "failed"
    /\ ENABLED startRecording


\* ---------------------------------------------------------------------------
\* The attempt counter and the end of recognition
\* ---------------------------------------------------------------------------

\* C14: reconnectAttempts is between 0 and 5 in every state, so the status
\* text and the retry message never show more than 5 of 5.
C14_AttemptsInBound == reconnectAttempts \in 0..5

\* C15: when recognition ends while the user is recording and the last
\* activity is 30 s old or more, or reconnectAttempts has reached 5, onend
\* sets the message of the stop and sets isRecording to false.
C15_EndGivesUp ==
    [][onend /\ isRecording
             /\ (now - lastActivity >= 30000 \/ reconnectAttempts >= 5)
           => error' = MsgStopped /\ ~isRecording']_vars


\* C16: whenever the user is recording and the recognizer is not listening,
\* later the recognizer listens again or the recording has ended.
C16_NeverStuck ==
    (isRecording /\ ~isListening) ~> (isListening \/ ~isRecording)


\* ---------------------------------------------------------------------------
\* Errors that are not transient
\* ---------------------------------------------------------------------------

\* the error codes that are neither transient nor a refused permission
OtherCodes == (ErrorCodes \ TransientCodes) \ {"not-allowed", "service-not-allowed"}

\* C17: in src/unnamed/part_002 an error event of not-allowed or
\* service-not-allowed sets isRecording to false, and one of another code that
\* is not transient sets the message and leaves isRecording; in
\* src/app/page.tsx every error event sets isRecording to false.
C17_ErrorEndsRecording ==
    [][/\ \A code \in {"not-allowed", "service-not-allowed"} :
              \A message \in ErrorMessages :
                  page = "part_002" /\ onerror(code, message) => ~isRecording'
       /\ \A code \in OtherCodes : \A message \in ErrorMessages :
              page = "part_002" /\ onerror(code, message)
                  => /\ error' = MsgRecognitionError(code, message)
                     /\ isRecording' = isRecording
       /\ \A code \in ErrorCodes :
              page = "app" /\ app_onerror(code) => ~isRecording']_vars

\* C17 happens: in src/unnamed/part_002 the recognizer has reported no-speech
\* while the user records
C17_Witness ==
    /\ page = "part_002"
    /\ isRecording
    /\ rec = "stopping"
    /\ error = MsgRecognitionError("no-speech", "")



\* ---------------------------------------------------------------------------
\* The microphone's resources
\* ---------------------------------------------------------------------------

\* C18: whenever isRecording is false and no startRecording awaits the
\* microphone, audioContextRef and microphoneRef are null and no animation
\* frame is pending, whichever way the recording ended.
C18_ResourcesReleased ==
    ~isRecording /\ pending = 0 => ~audioRefs /\ ~animationRef



\* ---------------------------------------------------------------------------
\* Finalized text
\* ---------------------------------------------------------------------------

\* the number of finalized segments of t that read w: a final result is
\* written as its transcript and a space, an interim one without the space
FinalizedCount(t, w) == Occurrences(t, w \o <<32>>)

\* C19: a result event removes only provisional text: a finalized segment
\* that is in the transcript is still there after any later result event, of
\* the same session or of one after a restart.
C19_FinalizedKept ==
    [][ResultStep =>
          \A w \in Segments :
              FinalizedCount(transcription', w) >= FinalizedCount(transcription, w)]_vars

====
